---- MODULE Spec2Model ----
(***************************************************************************)
(* Hydraulic flow-path core of HYD_AGENT_MCP:                              *)
(*   SchematicParser.find_flow_path   (schematic_parser.py)                *)
(*   FlowAnalyzer.analyze_flow_path   (flow_analyzer.py)                   *)
(*   FlowAnalyzer._parse_size         (flow_analyzer.py)                   *)
(*   FlowAnalyzer.find_restrictions   (flow_analyzer.py)                   *)
(*   FlowAnalyzer.compare_flow_paths  (flow_analyzer.py)                   *)
(* Python dicts are functions (a key is present iff it is in the DOMAIN),  *)
(* Python lists are sequences, None is the string "None"; where a dict or   *)
(* None is held (Optional[Dict]), None is <<>> and a dict d is <<d>>.       *)
(***************************************************************************)
EXTENDS Integers, Sequences, FiniteSets, TLC

VARIABLES
    schematic_data,   \* find_flow_path: argument {components, connections}
    start_component,  \* find_flow_path: argument
    end_component,    \* find_flow_path: argument
    max_depth,        \* find_flow_path: argument
    pc,               \* position inside find_flow_path
    queue,            \* find_flow_path: local deque of <<current, path>>
    visited,          \* find_flow_path: local set
    result,           \* find_flow_path: returned dict
    path_details,     \* analyze_flow_path: argument
    flow_rate_lpm,    \* analyze_flow_path: argument
    pressure_bar,     \* analyze_flow_path: argument
    apc,              \* position inside analyze_flow_path
    total_pressure_drop,  \* analyze_flow_path: local
    component_drops,  \* analyze_flow_path: local list
    restrictions,     \* analyze_flow_path: local list
    analysis,         \* analyze_flow_path: returned dict
    k_factors,        \* FlowAnalyzer.COMPONENT_K_FACTORS, the class's dict
    size_input,       \* _parse_size: argument
    parsed,           \* _parse_size: what it returned and whether it warned
    rpc,              \* position inside find_restrictions
    restrictions_flow_rate_lpm,  \* find_restrictions: argument flow_rate_lpm
    comp_index,       \* find_restrictions: position of the for loop
    restriction_list, \* find_restrictions: local list restrictions
    cpc,              \* position inside compare_flow_paths
    path1_analysis,   \* compare_flow_paths: argument
    path2_analysis,   \* compare_flow_paths: argument
    path1_name,       \* compare_flow_paths: argument
    path2_name,       \* compare_flow_paths: argument
    comparison        \* compare_flow_paths: returned dict

pathVars == <<schematic_data, start_component, end_component, max_depth,
              pc, queue, visited, result>>

flowVars == <<path_details, flow_rate_lpm, pressure_bar, apc,
              total_pressure_drop, component_drops, restrictions, analysis>>

parseVars == <<size_input, parsed>>

restrVars == <<rpc, restrictions_flow_rate_lpm, comp_index, restriction_list>>

compareVars == <<cpc, path1_analysis, path2_analysis, path1_name, path2_name, comparison>>

vars == <<pathVars, flowVars, k_factors, parseVars, restrVars, compareVars>>

\* what find_flow_path has no access to, and what analyze_flow_path has none to
exceptPath == <<flowVars, k_factors, parseVars, restrVars, compareVars>>
exceptFlow == <<pathVars, parseVars, restrVars, compareVars>>

-----------------------------------------------------------------------------
(* Bounds of the explored inputs *)

\* component ids that may occur in a schematic
Ids == {"P1", "V1", "H203"}
\* longest connection list
MaxConns == 3
\* largest max_depth argument
MaxDepth == 3
\* smallest max_depth argument
MinDepth == -1
\* longest analysed path
MaxPath == 3

None == "None"
Nothing == <<>>
Some(x) == <<x>>
NoSpecs == [k \in {} |-> None]

\* K factors in tenths
COMPONENT_K_FACTORS ==
    [t \in {"VALVE_BALL", "VALVE_CHECK", "VALVE_PROPORTIONAL", "VALVE_DIRECTIONAL",
            "VALVE_RELIEF", "FILTER", "ELBOW_90", "TEE_BRANCH", "CYLINDER", "MANIFOLD"} |->
        CASE t = "VALVE_BALL" -> 1
          [] t = "VALVE_CHECK" -> 20
          [] t = "VALVE_PROPORTIONAL" -> 15
          [] t = "VALVE_DIRECTIONAL" -> 30
          [] t = "VALVE_RELIEF" -> 5
          [] t = "FILTER" -> 50
          [] t = "ELBOW_90" -> 9
          [] t = "TEE_BRANCH" -> 18
          [] t = "CYLINDER" -> 5
          [] t = "MANIFOLD" -> 20]

\* the operations that are not running
ParseIdle ==
    /\ size_input = None
    /\ parsed = Nothing

RestrictionsIdle ==
    /\ rpc = "idle"
    /\ restrictions_flow_rate_lpm = 0
    /\ comp_index = 0
    /\ restriction_list = <<>>

CompareIdle ==
    /\ cpc = "idle"
    /\ path1_analysis = None
    /\ path2_analysis = None
    /\ path1_name = None
    /\ path2_name = None
    /\ comparison = None

-----------------------------------------------------------------------------
(* Inputs *)

Quote == "\""

CompP1 == [id |-> "P1", type |-> "PUMP", description |-> "Main pump",
           specifications |-> NoSpecs]
CompV1 == [id |-> "V1", type |-> "VALVE_DIRECTIONAL", description |-> "Directional valve",
           specifications |-> [size |-> <<"1", "/", "2", Quote>>]]
CompH203 == [id |-> "H203", type |-> "CYLINDER", description |-> "Cylinder",
             specifications |-> NoSpecs]

AllComponents == <<CompP1, CompV1, CompH203>>
WithoutH203 == <<CompP1, CompV1>>

\* the explored queries <<component list, start, end>>.  With every id present
\* the start is P1 (the connection lists range over all ids, so any other start
\* is a renaming of one of these); with H203 absent from the component list,
\* H203 is asked for as start, as end, as both, or only mentioned by connections.
Queries ==
    {<<AllComponents, "P1", e>> : e \in Ids}
    \cup {<<WithoutH203, "P1", "V1">>, <<WithoutH203, "P1", "H203">>,
          <<WithoutH203, "H203", "P1">>, <<WithoutH203, "H203", "H203">>}

ConnectionRecords == [from : Ids, to : Ids, type : {"PRESSURE"}]

ConnectionLists == UNION {[1..n -> ConnectionRecords] : n \in 0..MaxConns}

-----------------------------------------------------------------------------
(* find_flow_path *)

\* dict.get(key, default)
Get(d, key, default) == IF key \in DOMAIN d THEN d[key] ELSE default

\* {c['id']: c for c in ...}: the last component of an id wins
ComponentMap(list) ==
    [i \in {list[k].id : k \in 1..Len(list)} |->
        LET last == CHOOSE k \in 1..Len(list) :
                        /\ list[k].id = i
                        /\ \A j \in (k+1)..Len(list) : list[j].id # i
        IN list[last]]

components == ComponentMap(Get(schematic_data, "components", <<>>))
connections == Get(schematic_data, "connections", <<>>)

\* insert(0, ...) in place of append: the edges of one source, last first
RECURSIVE EdgesFromLastFirst(_, _)
EdgesFromLastFirst(conns, src) ==
    IF conns = <<>> THEN <<>>
    ELSE LET conn == Head(conns)
             rest == EdgesFromLastFirst(Tail(conns), src)
         IN IF conn.from = src
            THEN rest \o <<[to |-> conn.to, type |-> Get(conn, "type", None),
                            line_size |-> Get(conn, "line_size", None)]>>
            ELSE rest

\* a dict of edges per source in place of the list: a repeated connection
\* takes its edge to the end of its source's edges
RECURSIVE EdgesFromLastOccurrence(_, _)
EdgesFromLastOccurrence(conns, src) ==
    IF conns = <<>> THEN <<>>
    ELSE LET conn == Head(conns)
             rest == EdgesFromLastOccurrence(Tail(conns), src)
         IN IF conn.from = src /\ \A k \in 1..Len(rest) : rest[k].to # conn.to
            THEN <<[to |-> conn.to, type |-> Get(conn, "type", None),
                    line_size |-> Get(conn, "line_size", None)]>> \o rest
            ELSE rest

\* the edges of one source, in input order
RECURSIVE EdgesFrom(_, _)
EdgesFrom(conns, src) ==
    IF conns = <<>> THEN <<>>
    ELSE LET conn == Head(conns)
             rest == EdgesFrom(Tail(conns), src)
         IN IF conn.from = src
            THEN <<[to |-> conn.to, type |-> Get(conn, "type", None),
                    line_size |-> Get(conn, "line_size", None)]>> \o rest
            ELSE rest

\* the adjacency dict: a key for every id that is the source of a connection
BuildGraph(conns) ==
    [src \in {conns[k].from : k \in 1..Len(conns)} |-> EdgesFrom(conns, src)]

graph == BuildGraph(connections)

MissingEndpointBoth(start, end) ==
    start \notin DOMAIN components /\ end \notin DOMAIN components

MissingEndpoint(start, end) ==
    start \notin DOMAIN components \/ end \notin DOMAIN components

ExceedsDepthOffByOne(path) == Len(path) >= max_depth

\* the end check moved before the depth check: an element whose path ends at
\* end_component is never discarded
ExceedsDepthUnlessEnd(path) ==
    Len(path) > max_depth /\ path[Len(path)] # end_component

ExceedsDepthNever(path) == FALSE

ExceedsDepth(path) == Len(path) > max_depth

\* [path[0], neighbor_id] in place of path + [neighbor_id]: the ids between
\* start and the neighbour are dropped
ExtendPathFromStart(path, current, neighbor_id) == <<path[1], neighbor_id>>

ExtendPathWithCurrent(path, current, neighbor_id) == path \o <<current, neighbor_id>>

ExtendPath(path, current, neighbor_id) == path \o <<neighbor_id>>

\* enumerate(path, 1) in place of enumerate(path): positions count from one
PathDetailsFromOne(path) ==
    [i \in 1..Len(path) |->
        LET comp_data == Get(components, path[i], NoSpecs)
        IN [position |-> i,
            component_id |-> path[i],
            type |-> Get(comp_data, "type", None),
            description |-> Get(comp_data, "description", None),
            specifications |-> Get(comp_data, "specifications", NoSpecs)]]

PathDetails(path) ==
    [i \in 1..Len(path) |->
        LET comp_data == Get(components, path[i], NoSpecs)
        IN [position |-> i - 1,
            component_id |-> path[i],
            type |-> Get(comp_data, "type", None),
            description |-> Get(comp_data, "description", None),
            specifications |-> Get(comp_data, "specifications", NoSpecs)]]

FoundResultHops(path) ==
    [path_found |-> TRUE, path |-> path, path_length |-> Len(path) - 1,
     path_details |-> PathDetails(path)]

FoundResult(path) ==
    [path_found |-> TRUE, path |-> path, path_length |-> Len(path),
     path_details |-> PathDetails(path)]

NoPathResultErrorOnly(start, end) ==
    [error |-> <<"No path found between", start, "and", end>>]

NoPathResult(start, end) ==
    [path_found |-> FALSE, error |-> <<"No path found between", start, "and", end>>]

MissingResult == [error |-> "Start or end component not found"]

\* queue.appendleft in place of queue.append: the search goes deep first
RECURSIVE ExploreDepthFirst(_, _, _, _, _)
ExploreDepthFirst(edges, current, path, q, vis) ==
    IF edges = <<>> THEN [queue |-> q, visited |-> vis]
    ELSE LET neighbor_id == Head(edges).to
         IN IF neighbor_id \notin vis
            THEN ExploreDepthFirst(Tail(edges), current, path,
                     <<<<neighbor_id, ExtendPath(path, current, neighbor_id)>>>> \o q,
                     vis \cup {neighbor_id})
            ELSE ExploreDepthFirst(Tail(edges), current, path, q, vis)

\* the for loop without `if neighbor_id not in visited`: every neighbour is
\* enqueued
RECURSIVE ExploreRevisiting(_, _, _, _, _)
ExploreRevisiting(edges, current, path, q, vis) ==
    IF edges = <<>> THEN [queue |-> q, visited |-> vis]
    ELSE LET neighbor_id == Head(edges).to
         IN ExploreRevisiting(Tail(edges), current, path,
                Append(q, <<neighbor_id, ExtendPath(path, current, neighbor_id)>>),
                vis \cup {neighbor_id})

\* the for loop over graph.get(current, []): state after the neighbours of
\* `current` were tried in order
RECURSIVE Explore(_, _, _, _, _)
Explore(edges, current, path, q, vis) ==
    IF edges = <<>> THEN [queue |-> q, visited |-> vis]
    ELSE LET neighbor_id == Head(edges).to
         IN IF neighbor_id \notin vis
            THEN Explore(Tail(edges), current, path,
                         Append(q, <<neighbor_id, ExtendPath(path, current, neighbor_id)>>),
                         vis \cup {neighbor_id})
            ELSE Explore(Tail(edges), current, path, q, vis)

InitPath ==
    /\ \E q \in Queries, conns \in ConnectionLists :
          /\ schematic_data = [components |-> q[1], connections |-> conns]
          /\ start_component = q[2]
          /\ end_component = q[3]
    /\ max_depth \in MinDepth..MaxDepth
    /\ pc = "entry"
    /\ queue = <<>>
    /\ visited = {}
    /\ result = None
    /\ path_details = <<>>
    /\ flow_rate_lpm = 0
    /\ pressure_bar = 0
    /\ apc = "idle"
    /\ total_pressure_drop = 0
    /\ component_drops = <<>>
    /\ restrictions = <<>>
    /\ analysis = None
    /\ k_factors = COMPONENT_K_FACTORS
    /\ ParseIdle
    /\ RestrictionsIdle
    /\ CompareIdle

\* lines 281-285: an endpoint is missing
ReturnMissing ==
    /\ pc = "entry"
    /\ MissingEndpoint(start_component, end_component)
    /\ result' = MissingResult
    /\ pc' = "done"
    /\ UNCHANGED <<schematic_data, start_component, end_component, max_depth,
                   queue, visited>>
    /\ UNCHANGED exceptPath

\* lines 281-302: both endpoints present, the graph is built, the search seeded
StartSearch ==
    /\ pc = "entry"
    /\ ~MissingEndpoint(start_component, end_component)
    /\ queue' = <<<<start_component, <<start_component>>>>>>
    /\ visited' = {start_component}
    /\ pc' = "loop"
    /\ UNCHANGED <<schematic_data, start_component, end_component, max_depth, result>>
    /\ UNCHANGED exceptPath

\* lines 304-308: the dequeued element is deeper than max_depth
Discard ==
    /\ pc = "loop"
    /\ queue # <<>>
    /\ ExceedsDepth(Head(queue)[2])
    /\ queue' = Tail(queue)
    /\ UNCHANGED <<schematic_data, start_component, end_component, max_depth,
                   pc, visited, result>>
    /\ UNCHANGED exceptPath

\* lines 304-328: the dequeued element is the end component
ReturnFound ==
    /\ pc = "loop"
    /\ queue # <<>>
    /\ ~ExceedsDepth(Head(queue)[2])
    /\ Head(queue)[1] = end_component
    /\ queue' = Tail(queue)
    /\ result' = FoundResult(Head(queue)[2])
    /\ pc' = "done"
    /\ UNCHANGED <<schematic_data, start_component, end_component, max_depth, visited>>
    /\ UNCHANGED exceptPath

\* lines 304-335: the dequeued element is expanded
Expand ==
    /\ pc = "loop"
    /\ queue # <<>>
    /\ ~ExceedsDepth(Head(queue)[2])
    /\ Head(queue)[1] # end_component
    /\ LET current == Head(queue)[1]
           path == Head(queue)[2]
           after == Explore(Get(graph, current, <<>>), current, path, Tail(queue), visited)
       IN /\ queue' = after.queue
          /\ visited' = after.visited
    /\ UNCHANGED <<schematic_data, start_component, end_component, max_depth, pc, result>>
    /\ UNCHANGED exceptPath

\* lines 304, 337-340: the queue is empty
ReturnNoPath ==
    /\ pc = "loop"
    /\ queue = <<>>
    /\ result' = NoPathResult(start_component, end_component)
    /\ pc' = "done"
    /\ UNCHANGED <<schematic_data, start_component, end_component, max_depth,
                   queue, visited>>
    /\ UNCHANGED exceptPath

NextPath ==
    \/ ReturnMissing
    \/ StartSearch
    \/ Discard
    \/ ReturnFound
    \/ Expand
    \/ ReturnNoPath

SpecPath == InitPath /\ [][NextPath]_vars

\* the queries of the calls followed to their return: from P1 to itself and
\* to H203 (V1 as end is H203 renamed, the connection lists range over all
\* ids), and to H203 absent from the component list
TerminationQueries ==
    {<<AllComponents, "P1", "P1">>, <<AllComponents, "P1", "H203">>,
     <<WithoutH203, "P1", "H203">>}

InitTermination ==
    /\ InitPath
    /\ <<schematic_data.components, start_component, end_component>>
          \in TerminationQueries

\* a call in progress takes its next step: the code of find_flow_path runs
\* from entry to return without waiting for anything
SpecTermination == InitTermination /\ [][NextPath]_vars /\ WF_vars(NextPath)

-----------------------------------------------------------------------------
(* Numbers.  Python floats are carried as integers in fixed units:           *)
(*   diameter      0.01 mm          area          0.01 mm^2                 *)
(*   flow rate     mm^3/s           velocity      cm/s                      *)
(*   pressure      Pa               K factor      tenths                    *)
(*   percentages   0.001 %          parsed floats thousandths               *)
(* Every quotient is rounded down to its unit.  math.pi is 355/113.         *)

\* floor(a * b / c) for c > 0 without forming a * b
MulDiv(a, b, c) == (a \div c) * b + ((a % c) * b) \div c

Max(a, b) == IF a >= b THEN a ELSE b

\* F of the value of x: x is evaluated once, like a Python local
Bind(x, F(_)) == CHOOSE v \in {F(y) : y \in {x}} : TRUE

-----------------------------------------------------------------------------
(* FlowAnalyzer._parse_size.  A Python str is a sequence of one-character    *)
(* strings.                                                                  *)

LowerCase == <<"a", "b", "c", "d", "e", "f", "g", "h", "i", "j", "k", "l", "m",
               "n", "o", "p", "q", "r", "s", "t", "u", "v", "w", "x", "y", "z">>
UpperCase == <<"A", "B", "C", "D", "E", "F", "G", "H", "I", "J", "K", "L", "M",
               "N", "O", "P", "Q", "R", "S", "T", "U", "V", "W", "X", "Y", "Z">>
Digits == <<"0", "1", "2", "3", "4", "5", "6", "7", "8", "9">>
Whitespace == {" "}

\* str.upper()
Upper(str) ==
    [i \in 1..Len(str) |->
        IF \E k \in 1..26 : LowerCase[k] = str[i]
        THEN UpperCase[CHOOSE k \in 1..26 : LowerCase[k] = str[i]]
        ELSE str[i]]

\* str.strip()
RECURSIVE LStrip(_)
LStrip(str) ==
    IF str # <<>> /\ Head(str) \in Whitespace THEN LStrip(Tail(str)) ELSE str

RECURSIVE RStrip(_)
RStrip(str) ==
    IF str # <<>> /\ str[Len(str)] \in Whitespace
    THEN RStrip(SubSeq(str, 1, Len(str) - 1)) ELSE str

Strip(str) == RStrip(LStrip(str))

\* sub in str
StartsWith(str, sub) ==
    Len(sub) <= Len(str) /\ SubSeq(str, 1, Len(sub)) = sub

RECURSIVE Contains(_, _)
Contains(str, sub) ==
    IF Len(str) < Len(sub) THEN FALSE
    ELSE StartsWith(str, sub) \/ Contains(Tail(str), sub)

\* str.replace(sub, ''), for a non-empty sub
RECURSIVE Remove(_, _)
Remove(str, sub) ==
    IF str = <<>> THEN <<>>
    ELSE IF StartsWith(str, sub)
         THEN Remove(SubSeq(str, Len(sub) + 1, Len(str)), sub)
         ELSE <<Head(str)>> \o Remove(Tail(str), sub)

\* str.split(ch): the list of the pieces between the occurrences of ch
RECURSIVE Split(_, _)
Split(str, ch) ==
    IF \A i \in 1..Len(str) : str[i] # ch THEN <<str>>
    ELSE LET k == CHOOSE i \in 1..Len(str) :
                      str[i] = ch /\ \A j \in 1..(i - 1) : str[j] # ch
         IN <<SubSeq(str, 1, k - 1)>> \o Split(SubSeq(str, k + 1, Len(str)), ch)

DigitValue(ch) == (CHOOSE k \in 1..10 : Digits[k] = ch) - 1

IsDigit(ch) == \E k \in 1..10 : Digits[k] = ch

RECURSIVE DigitsValue(_)
DigitsValue(str) ==
    IF str = <<>> THEN 0
    ELSE 10 * DigitsValue(SubSeq(str, 1, Len(str) - 1)) + DigitValue(str[Len(str)])

\* float(str) for the decimal forms [sign] digits [. digits], in thousandths;
\* ok is FALSE where float raises ValueError.  (Exponents, inf, nan and
\* underscores do not occur in the explored sizes.)
ParseFloat(str) ==
    Bind(Strip(str), LAMBDA t :
    Bind(t # <<>> /\ Head(t) \in {"+", "-"}, LAMBDA signed :
    Bind(Split(IF signed THEN Tail(t) ELSE t, "."), LAMBDA parts :
        LET whole == parts[1]
            frac == IF Len(parts) = 2 THEN parts[2] ELSE <<>>
            ok == /\ Len(parts) <= 2
                  /\ \A i \in 1..Len(whole) : IsDigit(whole[i])
                  /\ \A i \in 1..Len(frac) : IsDigit(frac[i])
                  /\ Len(whole) + Len(frac) > 0
            frac3 == SubSeq(frac \o <<"0", "0", "0">>, 1, 3)
            magnitude == 1000 * DigitsValue(whole) + DigitsValue(frac3)
        IN IF ok
           THEN [ok |-> TRUE,
                 value |-> IF signed /\ Head(t) = "-" THEN 0 - magnitude ELSE magnitude]
           ELSE [ok |-> FALSE, value |-> 0])))

\* 0.0127 m
DefaultDiameter == 1270

\* the fractional-inch branch with the fraction taken as millimetres when the
\* text carries the MM unit
FractionalInchesUnitAware(size_str) ==
    Bind(Split(Remove(size_str, <<Quote>>), "/"), LAMBDA parts :
    Bind(ParseFloat(parts[1]), LAMBDA numerator :
    Bind(ParseFloat(parts[2]), LAMBDA denominator :
        IF numerator.ok /\ denominator.ok /\ denominator.value > 0
        THEN [ok |-> TRUE,
              diameter |-> IF Contains(size_str, <<"M", "M">>)
                           THEN MulDiv(numerator.value, 100, denominator.value)
                           ELSE MulDiv(numerator.value, 2540, denominator.value)]
        ELSE [ok |-> FALSE, diameter |-> 0])))

\* the fractional-inch branch with a zero denominator answered by 0 inches
FractionalInchesZeroGuarded(size_str) ==
    Bind(Split(Remove(size_str, <<Quote>>), "/"), LAMBDA parts :
    Bind(ParseFloat(parts[1]), LAMBDA numerator :
    Bind(ParseFloat(parts[2]), LAMBDA denominator :
        IF numerator.ok /\ denominator.ok
        THEN [ok |-> TRUE,
              diameter |-> IF denominator.value > 0
                           THEN MulDiv(numerator.value, 2540, denominator.value)
                           ELSE 0]
        ELSE [ok |-> FALSE, diameter |-> 0])))

\* the fractional-inch branch, lines 179-187
FractionalInches(size_str) ==
    Bind(Split(Remove(size_str, <<Quote>>), "/"), LAMBDA parts :
    Bind(ParseFloat(parts[1]), LAMBDA numerator :
    Bind(ParseFloat(parts[2]), LAMBDA denominator :
        IF numerator.ok /\ denominator.ok /\ denominator.value # 0
        THEN [ok |-> TRUE,
              diameter |-> IF denominator.value > 0
                           THEN MulDiv(numerator.value, 2540, denominator.value)
                           ELSE MulDiv(0 - numerator.value, 2540, 0 - denominator.value)]
        ELSE [ok |-> FALSE, diameter |-> 0])))

\* the decimal-inch branch, lines 190-195
DecimalInches(size_str) ==
    Bind(ParseFloat(Remove(size_str, <<Quote>>)), LAMBDA inches :
        [ok |-> inches.ok, diameter |-> MulDiv(inches.value, 254, 100)])

\* the millimetre branch, lines 198-203
Millimetres(size_str) ==
    Bind(ParseFloat(Remove(size_str, <<"M", "M">>)), LAMBDA mm :
        [ok |-> mm.ok, diameter |-> mm.value \div 10])

\* the DN branch, lines 206-211
NominalDiameter(size_str) ==
    Bind(ParseFloat(Remove(size_str, <<"D", "N">>)), LAMBDA dn :
        [ok |-> dn.ok, diameter |-> dn.value \div 10])

\* _parse_size with what it logs: fallback is TRUE when the warning of line
\* 214 is written and the default returned
ParseSizeResult(size) ==
    Bind(Upper(Strip(size)), LAMBDA size_str :
    Bind(IF Contains(size_str, <<"/">>) THEN FractionalInches(size_str)
         ELSE [ok |-> FALSE, diameter |-> 0], LAMBDA fractional :
        IF fractional.ok
        THEN [diameter |-> fractional.diameter, fallback |-> FALSE]
        ELSE
    Bind(IF Contains(size_str, <<Quote>>) THEN DecimalInches(size_str)
         ELSE [ok |-> FALSE, diameter |-> 0], LAMBDA decimal :
        IF decimal.ok
        THEN [diameter |-> decimal.diameter, fallback |-> FALSE]
        ELSE
    Bind(IF Contains(size_str, <<"M", "M">>) THEN Millimetres(size_str)
         ELSE [ok |-> FALSE, diameter |-> 0], LAMBDA mm :
        IF mm.ok
        THEN [diameter |-> mm.diameter, fallback |-> FALSE]
        ELSE
    Bind(IF Contains(size_str, <<"D", "N">>) THEN NominalDiameter(size_str)
         ELSE [ok |-> FALSE, diameter |-> 0], LAMBDA dn :
        IF dn.ok
        THEN [diameter |-> dn.diameter, fallback |-> FALSE]
        ELSE [diameter |-> DefaultDiameter, fallback |-> TRUE])))))

ParseSize(size) == ParseSizeResult(size).diameter

-----------------------------------------------------------------------------
(* FlowAnalyzer._calculate_component_pressure_drop *)

\* kg/m^3
FLUID_DENSITY == 870
\* Pa.s, in thousandths
FLUID_VISCOSITY == 46

\* 3.0, the default of line 124
DefaultKFactor == 30

\* f'VALVE_{comp_type}'; a type whose composite is no key of the table maps
\* to a string that is no key either
ValveKey(comp_type) ==
    CASE comp_type = "BALL" -> "VALVE_BALL"
      [] comp_type = "CHECK" -> "VALVE_CHECK"
      [] comp_type = "PROPORTIONAL" -> "VALVE_PROPORTIONAL"
      [] comp_type = "DIRECTIONAL" -> "VALVE_DIRECTIONAL"
      [] comp_type = "RELIEF" -> "VALVE_RELIEF"
      [] OTHER -> "VALVE_<other>"

\* lines 122-125 with the retry under the composite key left out
KFactorWithoutComposite(comp_type) ==
    Get(k_factors, comp_type, DefaultKFactor)

\* lines 122-125
KFactor(comp_type) ==
    Get(k_factors, comp_type,
        Get(k_factors, ValveKey(comp_type), DefaultKFactor))

\* dict.setdefault in the place of dict.get: a key that is absent is inserted
TableAfterSetDefault(table, key) ==
    IF key \in DOMAIN table THEN table
    ELSE [k \in DOMAIN table \cup {key} |->
             IF k = key THEN DefaultKFactor ELSE table[k]]

\* dict.get leaves the dict as it is
TableAfterGet(table, key) == table

\* the table after the two lookups of lines 122-125, the inner one first
TableAfterLookup(comp_type) ==
    TableAfterGet(TableAfterGet(k_factors, ValveKey(comp_type)), comp_type)

HalfInch == <<"1", "/", "2", Quote>>

PortSize(specs) == ParseSize(Get(specs, "size", Get(specs, "port_size", HalfInch)))

\* math.pi * (port_size / 2) ** 2
FlowArea(port_size) == MulDiv(port_size * port_size, 71, 9040)

\* the velocity with a zero area answered by a velocity beyond every limit
VelocityUnbounded(flow_rate, area) == IF area > 0 THEN (flow_rate * 10) \div area ELSE 10000

\* flow_rate / area if area > 0 else 0
Velocity(flow_rate, area) == IF area > 0 THEN (flow_rate * 10) \div area ELSE 0

\* k_factor * (FLUID_DENSITY * velocity ** 2) / 2
PressureDrop(k_factor, velocity) ==
    MulDiv(velocity * velocity, k_factor * (FLUID_DENSITY \div 10), 20000)

\* (FLUID_DENSITY * velocity * port_size) / FLUID_VISCOSITY
Reynolds(velocity, port_size) ==
    MulDiv(velocity * port_size, FLUID_DENSITY \div 10, FLUID_VISCOSITY * 1000)

\* lines 144-149
HighVelocityCheck(velocity, info) ==
    IF velocity > 500
    THEN Some([type |-> "HIGH_VELOCITY",
               severity |-> IF velocity > 700 THEN "HIGH" ELSE "MEDIUM",
               details |-> <<"Flow velocity exceeds recommended 5.0 m/s", velocity>>])
    ELSE info

\* lines 153-158
TurbulentFlowCheck(reynolds, info) ==
    IF reynolds > 4000
    THEN Some([type |-> "TURBULENT_FLOW", severity |-> "MEDIUM",
               details |-> <<"Reynolds number indicates turbulent flow", reynolds>>])
    ELSE info

\* what stands for the exception of line 165 in the slot
ZeroDivisionError == Some([type |-> "ZeroDivisionError"])

\* lines 161-166; the details divide by the system pressure (a whole number
\* of bar, so of kPa), the percentage being carried in tenths
HighPressureDropCheck(pressure_drop, pressure, info) ==
    IF 10 * pressure_drop > pressure
    THEN IF pressure = 0
         THEN ZeroDivisionError
         ELSE Some([type |-> "HIGH_PRESSURE_DROP", severity |-> "HIGH",
                    details |-> <<"Component causes % pressure drop",
                                  pressure_drop \div (pressure \div 1000)>>])
    ELSE info

\* lines 140-166 with the first matching check kept instead of the last
RestrictionInfoFirstMatch(velocity, reynolds, pressure_drop, pressure) ==
    IF velocity > 500 THEN HighVelocityCheck(velocity, Nothing)
    ELSE IF reynolds > 4000 THEN TurbulentFlowCheck(reynolds, Nothing)
    ELSE HighPressureDropCheck(pressure_drop, pressure, Nothing)

\* lines 140-166: one slot, overwritten by each check that matches
RestrictionInfo(velocity, reynolds, pressure_drop, pressure) ==
    HighPressureDropCheck(pressure_drop, pressure,
        TurbulentFlowCheck(reynolds,
            HighVelocityCheck(velocity, Nothing)))

\* the returned tuple, or the exception that leaves the function
CalculateComponentPressureDrop(comp_type, specs, flow_rate, pressure) ==
    Bind(KFactor(comp_type), LAMBDA k_factor :
    Bind(PortSize(specs), LAMBDA port_size :
    Bind(FlowArea(port_size), LAMBDA area :
    Bind(Velocity(flow_rate, area), LAMBDA velocity :
    Bind(PressureDrop(k_factor, velocity), LAMBDA pressure_drop :
    Bind(Reynolds(velocity, port_size), LAMBDA reynolds :
    Bind(RestrictionInfo(velocity, reynolds, pressure_drop, pressure),
         LAMBDA restriction_info :
        [raised |-> restriction_info = ZeroDivisionError,
         pressure_drop |-> pressure_drop,
         restriction_info |-> restriction_info])))))))

-----------------------------------------------------------------------------
(* FlowAnalyzer.analyze_flow_path *)

\* flow_rate_lpm / 60000, in mm^3/s
FlowRateM3s(lpm) == (lpm * 50000) \div 3

\* pressure_bar * 1e5
PressurePa(bar) == bar * 100000

\* pressure_drop / 1e5: bar is carried in units of 1e-5 bar, which keeps the
\* quotient exact
PaToBar(pa) == pa

\* pressure_drop / 6894.76, in hundredths of a psi
PaToPsi(pa) == MulDiv(pa, 2500, 172369)

\* (drop['pressure_drop_bar'] * 1e5 / total_pressure_drop) * 100, in 0.001 %,
\* by long division
PercentOfTotal(drop_bar, total) ==
    LET whole == (drop_bar * 100) \div total
        r0 == (drop_bar * 100) % total
        d1 == (r0 * 10) \div total
        r1 == (r0 * 10) % total
        d2 == (r1 * 10) \div total
        r2 == (r1 * 10) % total
        d3 == (r2 * 10) \div total
    IN whole * 1000 + d1 * 100 + d2 * 10 + d3

\* lines 88-90 with the psi figure divided by the total in Pa
WithPercentagesOfPsi(drops, total) ==
    [i \in 1..Len(drops) |->
        IF total > 0
        THEN [drops[i] EXCEPT !.percent_of_total = PercentOfTotal(drops[i].pressure_drop_psi, total)]
        ELSE drops[i]]

\* lines 88-90 with a zero total counted as the whole: every share is 100 %
WithPercentagesWholeOfNothing(drops, total) ==
    [i \in 1..Len(drops) |->
        IF total > 0
        THEN [drops[i] EXCEPT !.percent_of_total = PercentOfTotal(drops[i].pressure_drop_bar, total)]
        ELSE [drops[i] EXCEPT !.percent_of_total = 100000]]

\* lines 88-90
WithPercentages(drops, total) ==
    [i \in 1..Len(drops) |->
        IF total > 0
        THEN [drops[i] EXCEPT !.percent_of_total = PercentOfTotal(drops[i].pressure_drop_bar, total)]
        ELSE drops[i]]

\* max(seq, key=pressure_drop_bar) with the last of the largest kept
RECURSIVE MaxByPressureDropLast(_)
MaxByPressureDropLast(drops) ==
    IF Len(drops) = 1 THEN drops[1]
    ELSE LET best == MaxByPressureDropLast(SubSeq(drops, 1, Len(drops) - 1))
             last == drops[Len(drops)]
         IN IF last.pressure_drop_bar >= best.pressure_drop_bar THEN last ELSE best

\* max(seq, key=pressure_drop_bar) of a non-empty list: a later element
\* replaces the best so far only if its key is greater
RECURSIVE MaxByPressureDrop(_)
MaxByPressureDrop(drops) ==
    IF Len(drops) = 1 THEN drops[1]
    ELSE LET best == MaxByPressureDrop(SubSeq(drops, 1, Len(drops) - 1))
             last == drops[Len(drops)]
         IN IF last.pressure_drop_bar > best.pressure_drop_bar THEN last ELSE best

\* line 93
Bottleneck(drops) == IF drops # <<>> THEN Some(MaxByPressureDrop(drops)) ELSE Nothing

\* _calculate_path_efficiency, lines 217-225, in 0.001 %
CalculatePathEfficiency(pressure_drop, system_pressure) ==
    IF system_pressure = 0 THEN 0
    ELSE LET loss_percent == pressure_drop \div system_pressure
         IN Max(0, 100000 - loss_percent)

\* _generate_analysis_text, lines 227-254: the lines of the text
GenerateAnalysisText(total_drop, system_pressure, efficiency, bottleneck, restr) ==
    <<<<"Flow Path Analysis Summary:">>,
      <<"Total pressure drop", total_drop>>,
      <<"System pressure", system_pressure>>,
      <<"Path efficiency", efficiency>>>>
    \o (IF bottleneck # Nothing
        THEN <<<<"Bottleneck", bottleneck[1].component_id, bottleneck[1].description>>,
               <<"Pressure drop", bottleneck[1].pressure_drop_bar,
                 bottleneck[1].percent_of_total>>>>
        ELSE <<>>)
    \o (IF restr # <<>>
        THEN <<<<"Identified restrictions:">>>>
             \o [i \in 1..Len(restr) |->
                    <<restr[i].component_id, restr[i].restriction_type,
                      restr[i].severity, restr[i].details>>]
        ELSE <<>>)
    \o (IF efficiency < 70000
        THEN <<<<"WARNING: Path efficiency is below 70%">>>>
        ELSE <<>>)

\* the components of the analysed schematics
FlowComponents ==
    <<CompP1, CompV1, CompH203,
      [id |-> "F1", type |-> "FILTER", description |-> "Return filter",
       specifications |-> [port_size |-> <<"D", "N", "5", "0">>]],
      [id |-> "B1", type |-> "BALL", description |-> "Ball valve",
       specifications |-> [size |-> <<"3", "/", "4", Quote>>]],
      [id |-> "Z1", type |-> "MANIFOLD", description |-> "Blanked manifold",
       specifications |-> [size |-> <<"0", "/", "1", Quote>>]]>>

FlowIds == {FlowComponents[k].id : k \in 1..Len(FlowComponents)}

\* the analysed paths: every list of at most MaxPath distinct ids
FlowPaths ==
    UNION {{p \in [1..n -> FlowIds] : \A i, j \in 1..n : i # j => p[i] # p[j]}
           : n \in 0..MaxPath}

FlowRates == {0, 20, 100, 550}

Pressures == {-200, 0, 1, 200}

InitFlow ==
    /\ schematic_data = [components |-> FlowComponents, connections |-> <<>>]
    /\ start_component = None
    /\ end_component = None
    /\ max_depth = 0
    /\ pc = "idle"
    /\ queue = <<>>
    /\ visited = {}
    /\ result = None
    /\ \E path \in FlowPaths : path_details = PathDetails(path)
    /\ flow_rate_lpm \in FlowRates
    /\ pressure_bar \in Pressures
    /\ apc = "entry"
    /\ total_pressure_drop = 0
    /\ component_drops = <<>>
    /\ restrictions = <<>>
    /\ analysis = None
    /\ k_factors = COMPONENT_K_FACTORS
    /\ ParseIdle
    /\ RestrictionsIdle
    /\ CompareIdle

\* lines 48-56
StartAnalysis ==
    /\ apc = "entry"
    /\ total_pressure_drop' = 0
    /\ component_drops' = <<>>
    /\ restrictions' = <<>>
    /\ apc' = "loop"
    /\ UNCHANGED <<path_details, flow_rate_lpm, pressure_bar, analysis, k_factors>>
    /\ UNCHANGED exceptFlow

\* the component the for loop of line 58 is at
NextComponent == path_details[Len(component_drops) + 1]

ComponentResult(comp) ==
    CalculateComponentPressureDrop(Get(comp, "type", "UNKNOWN"),
                                   Get(comp, "specifications", NoSpecs),
                                   FlowRateM3s(flow_rate_lpm),
                                   PressurePa(pressure_bar))

\* lines 58-85: one pass of the loop
AnalyzeComponent ==
    /\ apc = "loop"
    /\ Len(component_drops) < Len(path_details)
    /\ \E comp \in {NextComponent} : \E ret \in {ComponentResult(comp)} :
          /\ ~ret.raised
          /\ total_pressure_drop' = total_pressure_drop + ret.pressure_drop
          /\ component_drops' = Append(component_drops,
                [component_id |-> comp.component_id,
                 type |-> Get(comp, "type", "UNKNOWN"),
                 description |-> Get(comp, "description", None),
                 pressure_drop_bar |-> PaToBar(ret.pressure_drop),
                 pressure_drop_psi |-> PaToPsi(ret.pressure_drop),
                 percent_of_total |-> 0])
          /\ restrictions' =
                IF ret.restriction_info # Nothing
                THEN Append(restrictions,
                        [component_id |-> comp.component_id,
                         restriction_type |-> ret.restriction_info[1].type,
                         severity |-> ret.restriction_info[1].severity,
                         details |-> ret.restriction_info[1].details])
                ELSE restrictions
          /\ k_factors' = TableAfterLookup(Get(comp, "type", "UNKNOWN"))
    /\ UNCHANGED <<path_details, flow_rate_lpm, pressure_bar, apc, analysis>>
    /\ UNCHANGED exceptFlow

\* lines 64-66, 165: the exception of the pressure-drop calculation leaves
\* analyze_flow_path
ComponentRaises ==
    /\ apc = "loop"
    /\ Len(component_drops) < Len(path_details)
    /\ ComponentResult(NextComponent).raised
    /\ apc' = "raised"
    /\ analysis' = "ZeroDivisionError"
    /\ k_factors' = TableAfterLookup(Get(NextComponent, "type", "UNKNOWN"))
    /\ UNCHANGED <<path_details, flow_rate_lpm, pressure_bar,
                   total_pressure_drop, component_drops, restrictions>>
    /\ UNCHANGED exceptFlow

\* lines 87-111
FinishAnalysis ==
    /\ apc = "loop"
    /\ Len(component_drops) = Len(path_details)
    /\ \E drops \in {WithPercentages(component_drops, total_pressure_drop)} :
       \E bottleneck \in {Bottleneck(drops)} :
       \E total_drop_bar \in {PaToBar(total_pressure_drop)} :
       \E efficiency \in {CalculatePathEfficiency(total_drop_bar, pressure_bar)} :
          /\ component_drops' = drops
          /\ analysis' =
                [flow_rate_lpm |-> flow_rate_lpm,
                 system_pressure_bar |-> pressure_bar,
                 total_pressure_drop_bar |-> total_drop_bar,
                 total_pressure_drop_psi |-> PaToPsi(total_pressure_drop),
                 efficiency_percent |-> efficiency,
                 component_pressure_drops |-> drops,
                 bottleneck |-> bottleneck,
                 restrictions |-> restrictions,
                 analysis |-> GenerateAnalysisText(total_drop_bar, pressure_bar,
                                                   efficiency, bottleneck, restrictions)]
    /\ apc' = "done"
    /\ UNCHANGED <<path_details, flow_rate_lpm, pressure_bar,
                   total_pressure_drop, restrictions, k_factors>>
    /\ UNCHANGED exceptFlow

NextFlow ==
    \/ StartAnalysis
    \/ AnalyzeComponent
    \/ ComponentRaises
    \/ FinishAnalysis

SpecFlow == InitFlow /\ [][NextFlow]_vars

-----------------------------------------------------------------------------
(* analyze_flow_path as one function of its arguments: what a call returns  *)
(* when nothing else runs                                                    *)

\* lines 58-85 for the first n components: the locals after the loop, or
\* Nothing once a component has raised
RECURSIVE AnalysisLoop(_, _, _, _)
AnalysisLoop(details, lpm, bar, n) ==
    IF n = 0
    THEN Some([total_pressure_drop |-> 0, component_drops |-> <<>>, restrictions |-> <<>>])
    ELSE
    Bind(AnalysisLoop(details, lpm, bar, n - 1), LAMBDA before :
        IF before = Nothing THEN Nothing
        ELSE
    Bind(details[n], LAMBDA comp :
    Bind(CalculateComponentPressureDrop(Get(comp, "type", "UNKNOWN"),
                                        Get(comp, "specifications", NoSpecs),
                                        FlowRateM3s(lpm), PressurePa(bar)), LAMBDA ret :
        IF ret.raised THEN Nothing
        ELSE Some(
            [total_pressure_drop |-> before[1].total_pressure_drop + ret.pressure_drop,
             component_drops |-> Append(before[1].component_drops,
                [component_id |-> comp.component_id,
                 type |-> Get(comp, "type", "UNKNOWN"),
                 description |-> Get(comp, "description", None),
                 pressure_drop_bar |-> PaToBar(ret.pressure_drop),
                 pressure_drop_psi |-> PaToPsi(ret.pressure_drop),
                 percent_of_total |-> 0]),
             restrictions |->
                IF ret.restriction_info # Nothing
                THEN Append(before[1].restrictions,
                        [component_id |-> comp.component_id,
                         restriction_type |-> ret.restriction_info[1].type,
                         severity |-> ret.restriction_info[1].severity,
                         details |-> ret.restriction_info[1].details])
                ELSE before[1].restrictions]))))

\* lines 48-111: the returned dict, or Nothing when the call raises
AnalysisOf(details, lpm, bar) ==
    Bind(AnalysisLoop(details, lpm, bar, Len(details)), LAMBDA after :
        IF after = Nothing THEN Nothing
        ELSE
    Bind(WithPercentages(after[1].component_drops, after[1].total_pressure_drop), LAMBDA drops :
    Bind(Bottleneck(drops), LAMBDA bottleneck :
    Bind(PaToBar(after[1].total_pressure_drop), LAMBDA total_drop_bar :
    Bind(CalculatePathEfficiency(total_drop_bar, bar), LAMBDA efficiency :
        Some([flow_rate_lpm |-> lpm,
              system_pressure_bar |-> bar,
              total_pressure_drop_bar |-> total_drop_bar,
              total_pressure_drop_psi |-> PaToPsi(after[1].total_pressure_drop),
              efficiency_percent |-> efficiency,
              component_pressure_drops |-> drops,
              bottleneck |-> bottleneck,
              restrictions |-> after[1].restrictions,
              analysis |-> GenerateAnalysisText(total_drop_bar, bar, efficiency,
                                                bottleneck, after[1].restrictions)]))))))

-----------------------------------------------------------------------------
(* FlowAnalyzer.find_restrictions *)

\* schematic_data.get('components', []): the list, not the dict of
\* find_flow_path
component_list == Get(schematic_data, "components", <<>>)

\* line 277: None when neither key is present
SizeOf(specs) == Get(specs, "size", Get(specs, "port_size", None))

\* `if size:` of line 278, for None and for a str
Truthy(size) == size # None /\ size # <<>>

\* (flow_rate_lpm / 60000) / area if area > 0 else 0, lines 279-281
PortVelocity(size, lpm) == Velocity(FlowRateM3s(lpm), FlowArea(ParseSize(size)))

\* lines 277-290: what the port check appends; the recommendation's flow is
\* in tenths of L/min
PortCheck(comp, lpm) ==
    Bind(SizeOf(Get(comp, "specifications", NoSpecs)), LAMBDA size :
        IF Truthy(size)
        THEN Bind(PortVelocity(size, lpm), LAMBDA velocity :
            IF velocity > 500
            THEN <<[component_id |-> comp.id,
                    type |-> "UNDERSIZED_PORT",
                    severity |-> IF velocity > 700 THEN "HIGH" ELSE "MEDIUM",
                    details |-> <<"Port size creates velocity at LPM", size, velocity, lpm>>,
                    recommendation |-> <<"Consider increasing to next size up", lpm * 7>>]>>
            ELSE <<>>)
        ELSE <<>>)

\* line 293
ConnectionsFrom(conns, id) == SelectSeq(conns, LAMBDA c : c.from = id)

\* comp_type.startswith('VALVE'), over the types of the explored schematics
StartsWithValve(comp_type) ==
    comp_type \in {"VALVE", "VALVE_BALL", "VALVE_CHECK", "VALVE_PROPORTIONAL",
                   "VALVE_DIRECTIONAL", "VALVE_RELIEF"}

\* lines 293-301 with two downstream connections already flagged
SeriesCheckFromTwo(comp, conns) ==
    Bind(ConnectionsFrom(conns, comp.id), LAMBDA comp_connections :
        IF StartsWithValve(Get(comp, "type", "")) /\ Len(comp_connections) >= 2
        THEN <<[component_id |-> comp.id,
                type |-> "SERIES_RESTRICTION",
                severity |-> "MEDIUM",
                details |-> <<"Valve has downstream connections", Len(comp_connections)>>,
                recommendation |-> <<"Review circuit design for parallel paths">>]>>
        ELSE <<>>)

\* lines 293-301: what the series check appends
SeriesCheck(comp, conns) ==
    Bind(ConnectionsFrom(conns, comp.id), LAMBDA comp_connections :
        IF StartsWithValve(Get(comp, "type", "")) /\ Len(comp_connections) > 2
        THEN <<[component_id |-> comp.id,
                type |-> "SERIES_RESTRICTION",
                severity |-> "MEDIUM",
                details |-> <<"Valve has downstream connections", Len(comp_connections)>>,
                recommendation |-> <<"Review circuit design for parallel paths">>]>>
        ELSE <<>>)

\* severity_order.get(x['severity'], 3), lines 304-305
SeverityOrder(severity) ==
    CASE severity = "HIGH" -> 0
      [] severity = "MEDIUM" -> 1
      [] severity = "LOW" -> 2
      [] OTHER -> 3

\* an insertion that puts x before the entries of its own key
RECURSIVE InsertBeforeEqual(_, _)
InsertBeforeEqual(sorted, x) ==
    IF sorted = <<>> THEN <<x>>
    ELSE IF SeverityOrder(Head(sorted).severity) < SeverityOrder(x.severity)
         THEN <<Head(sorted)>> \o InsertBeforeEqual(Tail(sorted), x)
         ELSE <<x>> \o sorted

\* x goes behind every entry whose key is not greater than its own
RECURSIVE InsertBySeverity(_, _)
InsertBySeverity(sorted, x) ==
    IF sorted = <<>> THEN <<x>>
    ELSE IF SeverityOrder(Head(sorted).severity) <= SeverityOrder(x.severity)
         THEN <<Head(sorted)>> \o InsertBySeverity(Tail(sorted), x)
         ELSE <<x>> \o sorted

\* list.sort(key=...), which is stable
RECURSIVE SortBySeverity(_)
SortBySeverity(list) ==
    IF list = <<>> THEN <<>>
    ELSE InsertBySeverity(SortBySeverity(SubSeq(list, 1, Len(list) - 1)),
                          list[Len(list)])

\* what find_restrictions has no access to or leaves alone
exceptRestrictions == <<pathVars, flowVars, k_factors, parseVars, compareVars>>

\* the components of the scanned schematics
CompV2 == [id |-> "V2", type |-> "VALVE_CHECK", description |-> "Check valve",
           specifications |-> [size |-> <<"1", "/", "8", Quote>>]]
CompX1 == [id |-> "X1", description |-> "Unlabelled block",
           specifications |-> [size |-> <<"X", "L">>]]
CompF1 == FlowComponents[4]
CompZ1 == FlowComponents[6]

RestrictionComponents == {CompP1, CompV1, CompV2, CompX1, CompF1, CompZ1}

MaxComps == 3

\* every list of at most MaxComps components with distinct ids
RestrictionComponentLists ==
    UNION {{l \in [1..n -> RestrictionComponents] :
                \A i, j \in 1..n : i # j => l[i].id # l[j].id}
           : n \in 0..MaxComps}

RestrictionConnectionLists ==
    UNION {[1..n -> [from : {"P1", "V1"}, to : {"H203"}, type : {"PRESSURE"}]]
           : n \in 0..MaxConns}

RestrictionFlowRates == {0, 45, 100}

InitRestrictions ==
    /\ \E l \in RestrictionComponentLists, conns \in RestrictionConnectionLists :
          schematic_data = [components |-> l, connections |-> conns]
    /\ restrictions_flow_rate_lpm \in RestrictionFlowRates
    /\ rpc = "entry"
    /\ comp_index = 0
    /\ restriction_list = <<>>
    /\ start_component = None
    /\ end_component = None
    /\ max_depth = 0
    /\ pc = "idle"
    /\ queue = <<>>
    /\ visited = {}
    /\ result = None
    /\ path_details = <<>>
    /\ flow_rate_lpm = 0
    /\ pressure_bar = 0
    /\ apc = "idle"
    /\ total_pressure_drop = 0
    /\ component_drops = <<>>
    /\ restrictions = <<>>
    /\ analysis = None
    /\ k_factors = COMPONENT_K_FACTORS
    /\ ParseIdle
    /\ CompareIdle

\* lines 267-270
StartRestrictions ==
    /\ rpc = "entry"
    /\ restriction_list' = <<>>
    /\ comp_index' = 1
    /\ rpc' = "loop"
    /\ UNCHANGED restrictions_flow_rate_lpm
    /\ UNCHANGED exceptRestrictions

\* lines 272-301: one pass of the loop, the port check and then the series
\* check
CheckComponent ==
    /\ rpc = "loop"
    /\ comp_index <= Len(component_list)
    /\ \E comp \in {component_list[comp_index]} :
          restriction_list' =
              restriction_list
              \o PortCheck(comp, restrictions_flow_rate_lpm)
              \o SeriesCheck(comp, connections)
    /\ comp_index' = comp_index + 1
    /\ UNCHANGED <<rpc, restrictions_flow_rate_lpm>>
    /\ UNCHANGED exceptRestrictions

\* lines 303-307
SortRestrictions ==
    /\ rpc = "loop"
    /\ comp_index > Len(component_list)
    /\ restriction_list' = SortBySeverity(restriction_list)
    /\ rpc' = "done"
    /\ UNCHANGED <<comp_index, restrictions_flow_rate_lpm>>
    /\ UNCHANGED exceptRestrictions

NextRestrictions ==
    \/ StartRestrictions
    \/ CheckComponent
    \/ SortRestrictions

SpecRestrictions == InitRestrictions /\ [][NextRestrictions]_vars

-----------------------------------------------------------------------------
(* FlowAnalyzer.compare_flow_paths *)

Abs(x) == IF x >= 0 THEN x ELSE 0 - x

\* a dict display {k1: v1, k2: v2, ...}: of two equal keys the later one
\* stays
Dict(pairs) ==
    [k \in {pairs[i][1] : i \in 1..Len(pairs)} |->
        pairs[CHOOSE i \in 1..Len(pairs) :
                  /\ pairs[i][1] = k
                  /\ \A j \in (i + 1)..Len(pairs) : pairs[j][1] # k][2]]

\* lines 326-333 with <= in place of <: a tie names the first path
PressureDropComparisonTieToFirst(a, b, name1, name2) ==
    Dict(<<<<name1, a.total_pressure_drop_bar>>,
           <<name2, b.total_pressure_drop_bar>>,
           <<"difference_bar", Abs(a.total_pressure_drop_bar - b.total_pressure_drop_bar)>>,
           <<"better_path", IF a.total_pressure_drop_bar <= b.total_pressure_drop_bar
                            THEN name1 ELSE name2>>>>)

\* lines 326-333
PressureDropComparison(a, b, name1, name2) ==
    Dict(<<<<name1, a.total_pressure_drop_bar>>,
           <<name2, b.total_pressure_drop_bar>>,
           <<"difference_bar", Abs(a.total_pressure_drop_bar - b.total_pressure_drop_bar)>>,
           <<"better_path", IF a.total_pressure_drop_bar < b.total_pressure_drop_bar
                            THEN name1 ELSE name2>>>>)

\* lines 334-341 with the smaller efficiency taken as the better one
EfficiencyComparisonSmallerWins(a, b, name1, name2) ==
    Dict(<<<<name1, a.efficiency_percent>>,
           <<name2, b.efficiency_percent>>,
           <<"difference_percent", Abs(a.efficiency_percent - b.efficiency_percent)>>,
           <<"better_path", IF a.efficiency_percent < b.efficiency_percent
                            THEN name1 ELSE name2>>>>)

\* lines 334-341
EfficiencyComparison(a, b, name1, name2) ==
    Dict(<<<<name1, a.efficiency_percent>>,
           <<name2, b.efficiency_percent>>,
           <<"difference_percent", Abs(a.efficiency_percent - b.efficiency_percent)>>,
           <<"better_path", IF a.efficiency_percent > b.efficiency_percent
                            THEN name1 ELSE name2>>>>)

\* lines 342-347
RestrictionComparison(a, b, name1, name2) ==
    Dict(<<<<name1, Len(a.restrictions)>>,
           <<name2, Len(b.restrictions)>>,
           <<"better_path", IF Len(a.restrictions) < Len(b.restrictions)
                            THEN name1 ELSE name2>>>>)

\* lines 351-368: the lines of the summary
ComparisonSummary(a, b, name1, name2, pressure, efficiency, restr) ==
    <<<<"Flow Path Comparison:", name1, "vs", name2>>,
      <<"Pressure Drop:">>,
      <<name1, a.total_pressure_drop_bar>>,
      <<name2, b.total_pressure_drop_bar>>,
      <<"Winner:", pressure.better_path>>,
      <<"Efficiency:">>,
      <<name1, a.efficiency_percent>>,
      <<name2, b.efficiency_percent>>,
      <<"Winner:", efficiency.better_path>>,
      <<"Restrictions:">>,
      <<name1, Len(a.restrictions)>>,
      <<name2, Len(b.restrictions)>>,
      <<"Winner:", restr.better_path>>>>

\* lines 323-370
CompareFlowPaths(a, b, name1, name2) ==
    Bind(PressureDropComparison(a, b, name1, name2), LAMBDA pressure :
    Bind(EfficiencyComparison(a, b, name1, name2), LAMBDA efficiency :
    Bind(RestrictionComparison(a, b, name1, name2), LAMBDA restr :
        [path1_name |-> name1,
         path2_name |-> name2,
         pressure_drop_comparison |-> pressure,
         efficiency_comparison |-> efficiency,
         restriction_comparison |-> restr,
         summary |-> ComparisonSummary(a, b, name1, name2, pressure, efficiency, restr)])))

\* the compared analyses: what analyze_flow_path returns for these paths
ComparedPaths == {<<>>, <<"B1">>, <<"F1">>, <<"V1">>, <<"P1", "V1">>, <<"Z1", "H203">>}

ComparedFlowRates == {20, 100}

ComparedPressures == {1, 200}

ComparedAnalyses ==
    {a[1] : a \in {AnalysisOf(PathDetails(path), lpm, bar) :
                      path \in ComparedPaths, lpm \in ComparedFlowRates,
                      bar \in ComparedPressures} \ {Nothing}}

\* the default names, and names of the caller's
ComparedNames == {<<"Path 1", "Path 2">>, <<"Supply", "Return">>, <<"Supply", "Supply">>}

InitCompare ==
    /\ schematic_data = [components |-> FlowComponents, connections |-> <<>>]
    /\ k_factors = COMPONENT_K_FACTORS
    /\ path1_analysis \in ComparedAnalyses
    /\ path2_analysis \in ComparedAnalyses
    /\ \E names \in ComparedNames :
          /\ path1_name = names[1]
          /\ path2_name = names[2]
    /\ cpc = "entry"
    /\ comparison = None
    /\ start_component = None
    /\ end_component = None
    /\ max_depth = 0
    /\ pc = "idle"
    /\ queue = <<>>
    /\ visited = {}
    /\ result = None
    /\ path_details = <<>>
    /\ flow_rate_lpm = 0
    /\ pressure_bar = 0
    /\ apc = "idle"
    /\ total_pressure_drop = 0
    /\ component_drops = <<>>
    /\ restrictions = <<>>
    /\ analysis = None
    /\ ParseIdle
    /\ RestrictionsIdle

\* lines 323-370: one call
Compare ==
    /\ cpc = "entry"
    /\ comparison' = CompareFlowPaths(path1_analysis, path2_analysis, path1_name, path2_name)
    /\ cpc' = "done"
    /\ UNCHANGED <<path1_analysis, path2_analysis, path1_name, path2_name>>
    /\ UNCHANGED <<pathVars, flowVars, k_factors, parseVars, restrVars>>

NextCompare == Compare

SpecCompare == InitCompare /\ [][NextCompare]_vars

-----------------------------------------------------------------------------
(* _parse_size on its own: the sizes are the texts made of at most          *)
(* MaxTokens of the tokens below                                            *)

SizeTokens ==
    {<<"3", "/", "4">>, <<"1">>, <<"0">>, <<"/">>, <<Quote>>, <<"m", "m">>,
     <<"D", "N">>, <<"X">>, <<" ">>, <<".">>}

MaxTokens == 3

RECURSIVE SizesOf(_)
SizesOf(n) ==
    IF n = 0 THEN {<<>>}
    ELSE LET shorter == SizesOf(n - 1)
         IN shorter \cup {s \o t : s \in shorter, t \in SizeTokens}

SizeStrings == SizesOf(MaxTokens)

InitParse ==
    /\ size_input \in SizeStrings
    /\ parsed = Nothing
    /\ schematic_data = [components |-> <<>>, connections |-> <<>>]
    /\ start_component = None
    /\ end_component = None
    /\ max_depth = 0
    /\ pc = "idle"
    /\ queue = <<>>
    /\ visited = {}
    /\ result = None
    /\ path_details = <<>>
    /\ flow_rate_lpm = 0
    /\ pressure_bar = 0
    /\ apc = "idle"
    /\ total_pressure_drop = 0
    /\ component_drops = <<>>
    /\ restrictions = <<>>
    /\ analysis = None
    /\ k_factors = COMPONENT_K_FACTORS
    /\ RestrictionsIdle
    /\ CompareIdle

\* lines 170-215: one call
ParseSizeCall ==
    /\ parsed = Nothing
    /\ parsed' = Some(ParseSizeResult(size_input))
    /\ UNCHANGED size_input
    /\ UNCHANGED <<pathVars, flowVars, k_factors, restrVars, compareVars>>

NextParse == ParseSizeCall

SpecParse == InitParse /\ [][NextParse]_vars

-----------------------------------------------------------------------------
(* The four operations called by independent callers at the same time: each *)
(* call has its own locals, the callers share the schematic, the path       *)
(* details, the analyses and the class's table                              *)

\* lines 304-340 from a given queue and visited set to the return
RECURSIVE SearchFrom(_, _)
SearchFrom(q, vis) ==
    IF q = <<>> THEN NoPathResult(start_component, end_component)
    ELSE IF ExceedsDepth(Head(q)[2]) THEN SearchFrom(Tail(q), vis)
    ELSE IF Head(q)[1] = end_component THEN FoundResult(Head(q)[2])
    ELSE Bind(Explore(Get(graph, Head(q)[1], <<>>), Head(q)[1], Head(q)[2], Tail(q), vis),
              LAMBDA after : SearchFrom(after.queue, after.visited))

\* find_flow_path as one function of its arguments
FlowPathOf ==
    IF MissingEndpoint(start_component, end_component) THEN MissingResult
    ELSE SearchFrom(<<<<start_component, <<start_component>>>>>>, {start_component})

\* lines 272-301 for the first n components
RECURSIVE ScanOf(_)
ScanOf(n) ==
    IF n = 0 THEN <<>>
    ELSE ScanOf(n - 1)
         \o PortCheck(component_list[n], restrictions_flow_rate_lpm)
         \o SeriesCheck(component_list[n], connections)

\* find_restrictions as one function of its arguments
RestrictionsFound == SortBySeverity(ScanOf(Len(component_list)))

Conn(from, to) == [from |-> from, to |-> to, type |-> "PRESSURE"]

\* the shared schematics with the query and the path the callers pass:
\* <<components, connections, start, end, path>>
SharedInputs ==
    {<<AllComponents, <<Conn("P1", "V1"), Conn("V1", "H203")>>,
       "P1", "H203", <<"P1", "V1", "H203">>>>,
     <<<<CompP1, CompV1, CompZ1>>,
       <<Conn("V1", "Z1"), Conn("V1", "P1"), Conn("P1", "V1"), Conn("V1", "V1")>>,
       "P1", "Z1", <<"V1", "Z1">>>>,
     <<<<CompV2, CompZ1, CompX1>>, <<Conn("V2", "Z1")>>,
       "Z1", "V2", <<"Z1", "X1">>>>,
     <<<<CompZ1, CompV1>>, <<Conn("Z1", "V1")>>,
       "Z1", "P1", <<"Z1">>>>}

SharedDepths == {1, 3}

SharedFlowRates == {0, 100}

SharedPressures == {0, 200}

InitConcurrent ==
    /\ \E s \in SharedInputs :
          /\ schematic_data = [components |-> s[1], connections |-> s[2]]
          /\ start_component = s[3]
          /\ end_component = s[4]
          /\ path_details = PathDetails(s[5])
    /\ k_factors = COMPONENT_K_FACTORS
    /\ max_depth \in SharedDepths
    /\ pc = "entry"
    /\ queue = <<>>
    /\ visited = {}
    /\ result = None
    /\ flow_rate_lpm \in SharedFlowRates
    /\ pressure_bar \in SharedPressures
    /\ apc = "entry"
    /\ total_pressure_drop = 0
    /\ component_drops = <<>>
    /\ restrictions = <<>>
    /\ analysis = None
    /\ restrictions_flow_rate_lpm \in SharedFlowRates
    /\ rpc = "entry"
    /\ comp_index = 0
    /\ restriction_list = <<>>
    /\ \E lpm \in SharedFlowRates :
          /\ path1_analysis = AnalysisOf(path_details, 100, 200)[1]
          /\ path2_analysis = AnalysisOf(PathDetails(<<start_component>>), lpm, 200)[1]
    /\ path1_name = "Path 1"
    /\ path2_name = "Path 2"
    /\ cpc = "entry"
    /\ comparison = None
    /\ ParseIdle

NextConcurrent ==
    \/ NextPath
    \/ NextFlow
    \/ NextRestrictions
    \/ NextCompare

SpecConcurrent == InitConcurrent /\ [][NextConcurrent]_vars

-----------------------------------------------------------------------------
(* The connection graph, independently of the search *)

Edges == {<<connections[k].from, connections[k].to>> : k \in 1..Len(connections)}

\* ids reachable from src by at most k directed hops
RECURSIVE ReachWithin(_, _)
ReachWithin(src, k) ==
    IF k = 0 THEN {src}
    ELSE LET r == ReachWithin(src, k - 1)
         IN r \cup {e[2] : e \in {d \in Edges : d[1] \in r}}

MaxHops == Cardinality(Ids)

Reachable(src, dst) == dst \in ReachWithin(src, MaxHops)

\* number of connections on a shortest directed route (for a reachable pair)
HopDistance(src, dst) ==
    CHOOSE k \in 0..MaxHops :
        /\ dst \in ReachWithin(src, k)
        /\ \A j \in 0..(k - 1) : dst \notin ReachWithin(src, j)

BothPresent == ~(start_component \notin DOMAIN components
                 \/ end_component \notin DOMAIN components)

Returned == pc = "done"

PathFound == Returned /\ "path_found" \in DOMAIN result /\ result.path_found

PathNotFound == Returned /\ "path_found" \in DOMAIN result /\ ~result.path_found

NoRepeats(path) == \A i, j \in 1..Len(path) : i # j => path[i] # path[j]

-----------------------------------------------------------------------------
(* Claims about find_flow_path, checked under SpecPath *)

\* C1 (as stated): whenever a path is returned, path_length equals the
\* shortest directed-hop distance from start to end.
C1_PathLengthIsHopDistance ==
    PathFound => result.path_length = HopDistance(start_component, end_component)

\* C1 (amended): whenever a path is returned, end is reachable from start and
\* path_length, the number of ids of the path, is the shortest directed-hop
\* distance plus one: the path is a shortest route.
C1_PathLengthIsHopDistancePlusOne ==
    PathFound =>
        /\ Reachable(start_component, end_component)
        /\ result.path_length = Len(result.path)
        /\ result.path_length = HopDistance(start_component, end_component) + 1

C1_Witness ==
    /\ PathFound
    /\ result.path_length = 3
    /\ Len(connections) = 3
    /\ Cardinality(Edges) = 3

\* C2 (as stated): with both ids present, if some route of at most max_depth
\* hops exists, the search returns path_found True.
C2_FoundWithinMaxDepthHops ==
    (Returned /\ BothPresent /\ Reachable(start_component, end_component)
        /\ HopDistance(start_component, end_component) <= max_depth)
    => PathFound

\* C2 (amended): with both ids present, if some route of at most max_depth ids
\* (max_depth - 1 hops) exists, the search returns path_found True; not found
\* is reported only if every route has more than max_depth ids.
C2_FoundWithinMaxDepthIds ==
    (Returned /\ BothPresent /\ Reachable(start_component, end_component)
        /\ HopDistance(start_component, end_component) + 1 <= max_depth)
    => PathFound

C2_Witness ==
    /\ PathFound
    /\ HopDistance(start_component, end_component) + 1 = max_depth
    /\ max_depth = 3

\* C3: when the shortest route from start to end has max_depth + 1 hops, the
\* search reports path_found False although the route exists.
C3_DepthBoundCutsLongerRoute ==
    (Returned /\ BothPresent /\ Reachable(start_component, end_component)
        /\ HopDistance(start_component, end_component) = max_depth + 1)
    => PathNotFound

C3_Witness ==
    /\ PathNotFound
    /\ BothPresent
    /\ Reachable(start_component, end_component)
    /\ max_depth = 1
    /\ HopDistance(start_component, end_component) = 2

\* C4: a returned path contains each component id at most once, also in
\* graphs with cycles, self-loops and parallel edges.
C4_NoRepeatedIds == PathFound => NoRepeats(result.path)

C4_Witness ==
    /\ PathFound
    /\ Len(result.path) = 3
    /\ \E k \in 1..Len(connections) : connections[k].from = connections[k].to

\* C5: with both ids present and end not reachable from start, the search
\* runs until the queue is empty and returns the failure dict with
\* path_found False; the call always ends in a returned dict.
C5_UnreachableIsNotFound ==
    /\ pc \in {"entry", "loop", "done"}
    /\ (BothPresent /\ ~Reachable(start_component, end_component)) =>
          /\ (pc = "loop" => visited \subseteq ReachWithin(start_component, MaxHops))
          /\ (Returned => /\ PathNotFound
                          /\ "error" \in DOMAIN result
                          /\ queue = <<>>)

C5_Witness ==
    /\ PathNotFound
    /\ BothPresent
    /\ ~Reachable(start_component, end_component)
    /\ Cardinality(visited) = 2
    /\ max_depth = MaxDepth

\* C6: when start or end is absent from the component mapping, the call
\* returns the not-found error dict and never starts a traversal, whatever
\* the connections are.
C6_MissingEndpointNoTraversal ==
    (start_component \notin DOMAIN components \/ end_component \notin DOMAIN components)
    => /\ pc \in {"entry", "done"}
       /\ queue = <<>>
       /\ visited = {}
       /\ (Returned => /\ DOMAIN result = {"error"}
                       /\ result.error = "Start or end component not found")

C6_Witness ==
    /\ Returned
    /\ start_component \in DOMAIN components
    /\ end_component \notin DOMAIN components
    /\ <<start_component, end_component>> \in Edges

-----------------------------------------------------------------------------
(* Claims about analyze_flow_path, checked under SpecFlow *)

Analysed == apc = "done"

\* the quantities of the i-th component of the analysed path
CompPortSize(i) == PortSize(Get(path_details[i], "specifications", NoSpecs))
CompVelocity(i) == Velocity(FlowRateM3s(flow_rate_lpm), FlowArea(CompPortSize(i)))
CompReynolds(i) == Reynolds(CompVelocity(i), CompPortSize(i))
CompDrop(i) == PressureDrop(KFactor(Get(path_details[i], "type", "UNKNOWN")), CompVelocity(i))

HighVelocity(i) == CompVelocity(i) > 500
Turbulent(i) == CompReynolds(i) > 4000
HighDrop(i) == 10 * CompDrop(i) > PressurePa(pressure_bar)

\* the entries of the restrictions list that name the i-th component
RestrictionsOf(i) ==
    {k \in 1..Len(restrictions) :
        restrictions[k].component_id = path_details[i].component_id}

\* C7: every result of analyze_flow_path has 0 <= efficiency_percent <= 100.
C7_EfficiencyWithinBounds ==
    Analysed => analysis.efficiency_percent \in 0..100000

\* C8: with pressure_bar = 0 or flow_rate_lpm = 0 the analysis never faults,
\* and with pressure_bar = 0 it returns efficiency_percent 0.
C8_ZeroPressureOrFlowNeverFaults ==
    (pressure_bar = 0 \/ flow_rate_lpm = 0) =>
        /\ apc # "raised"
        /\ (Analysed /\ pressure_bar = 0 => analysis.efficiency_percent = 0)

\* C9: for every component the pressure-drop calculation returned for, at most
\* one restriction is collected, and it is the last of HIGH_VELOCITY,
\* TURBULENT_FLOW, HIGH_PRESSURE_DROP (in that order) whose condition holds,
\* with the severity of that check; none when no condition holds.
C9_LastMatchingRestriction ==
    \A i \in 1..Len(component_drops) :
        /\ Cardinality(RestrictionsOf(i)) <= 1
        /\ (~HighVelocity(i) /\ ~Turbulent(i) /\ ~HighDrop(i)) <=> RestrictionsOf(i) = {}
        /\ \A k \in RestrictionsOf(i) :
              /\ restrictions[k].restriction_type =
                    IF HighDrop(i) THEN "HIGH_PRESSURE_DROP"
                    ELSE IF Turbulent(i) THEN "TURBULENT_FLOW"
                    ELSE "HIGH_VELOCITY"
              /\ restrictions[k].severity =
                    IF HighDrop(i) THEN "HIGH"
                    ELSE IF Turbulent(i) THEN "MEDIUM"
                    ELSE IF CompVelocity(i) > 700 THEN "HIGH" ELSE "MEDIUM"

C9_Witness ==
    /\ Analysed
    /\ \E i \in 1..Len(component_drops) :
          /\ HighVelocity(i) /\ Turbulent(i) /\ ~HighDrop(i)
          /\ \E k \in RestrictionsOf(i) : restrictions[k].restriction_type = "TURBULENT_FLOW"
    /\ \E i \in 1..Len(component_drops) :
          /\ HighVelocity(i) /\ Turbulent(i) /\ HighDrop(i)
          /\ \E k \in RestrictionsOf(i) : restrictions[k].restriction_type = "HIGH_PRESSURE_DROP"

\* C10: the bottleneck of a result is the component with the largest
\* individual pressure drop, the first of them in path order when several
\* tie, and none when the path is empty.
C10_BottleneckIsFirstLargestDrop ==
    Analysed =>
        LET drops == analysis.component_pressure_drops
        IN IF path_details = <<>>
           THEN analysis.bottleneck = Nothing
           ELSE \E i \in 1..Len(drops) :
                   /\ analysis.bottleneck = Some(drops[i])
                   /\ drops[i].component_id = path_details[i].component_id
                   /\ drops[i].pressure_drop_bar = PaToBar(CompDrop(i))
                   /\ \A j \in 1..Len(drops) : CompDrop(j) <= CompDrop(i)
                   /\ \A j \in 1..(i - 1) : CompDrop(j) < CompDrop(i)

C10_Witness ==
    /\ Analysed
    /\ Len(path_details) = 3
    /\ CompDrop(1) < CompDrop(2)
    /\ CompDrop(2) = CompDrop(3)
    /\ analysis.bottleneck = Some(analysis.component_pressure_drops[2])

\* the sum of the Pa drops of the first n components of the analysed path
RECURSIVE SumOfDrops(_)
SumOfDrops(n) == IF n = 0 THEN 0 ELSE SumOfDrops(n - 1) + CompDrop(n)

\* the sum of the first n percent_of_total values of a breakdown
RECURSIVE SumOfPercents(_, _)
SumOfPercents(drops, n) ==
    IF n = 0 THEN 0 ELSE SumOfPercents(drops, n - 1) + drops[n].percent_of_total

\* C11: for a non-empty path with nonzero total pressure drop, every
\* percent_of_total of the returned breakdown is that component's drop divided
\* by the total of all drops, and the values sum to 100 within the rounding
\* of one unit (0.001 %) per component.
C11_PercentagesSumToHundred ==
    Analysed /\ path_details # <<>> /\ analysis.total_pressure_drop_bar # 0 =>
        LET drops == analysis.component_pressure_drops
            n == Len(path_details)
        IN /\ Len(drops) = n
           /\ analysis.total_pressure_drop_bar = PaToBar(SumOfDrops(n))
           /\ \A i \in 1..n :
                 drops[i].percent_of_total = PercentOfTotal(CompDrop(i), SumOfDrops(n))
           /\ SumOfPercents(drops, n) <= 100000
           /\ SumOfPercents(drops, n) > 100000 - n

C11_Witness ==
    /\ Analysed
    /\ Len(path_details) = 3
    /\ analysis.total_pressure_drop_bar # 0
    /\ \E i, j \in 1..3 :
          /\ analysis.component_pressure_drops[i].percent_of_total > 0
          /\ analysis.component_pressure_drops[j].percent_of_total >
                analysis.component_pressure_drops[i].percent_of_total
    /\ SumOfPercents(analysis.component_pressure_drops, 3) < 100000

-----------------------------------------------------------------------------
(* Claims about _parse_size, checked under SpecParse *)

Parsed == parsed # Nothing

\* the text the forms are matched against, line 176
Canonical == Upper(Strip(size_input))

HasSlash == Contains(Canonical, <<"/">>)
HasQuote == Contains(Canonical, <<Quote>>)
HasMM == Contains(Canonical, <<"M", "M">>)
HasDN == Contains(Canonical, <<"D", "N">>)

\* the first two pieces of a text with a '/', quotes removed, as numbers
Numerator == ParseFloat(Split(Remove(Canonical, <<Quote>>), "/")[1])
Denominator == ParseFloat(Split(Remove(Canonical, <<Quote>>), "/")[2])

\* numerator / denominator inches in metres, for a nonzero denominator
FractionInMetres ==
    IF Denominator.value > 0
    THEN MulDiv(Numerator.value, 2540, Denominator.value)
    ELSE MulDiv(0 - Numerator.value, 2540, 0 - Denominator.value)

TheDefault == [diameter |-> DefaultDiameter, fallback |-> TRUE]

\* C13 as stated: a text containing both '/' and 'MM' is converted as a
\* fractional-inch value, numerator / denominator inches times 0.0254.
C13_SlashAndMMIsFractionalInch ==
    Parsed /\ HasSlash /\ HasMM =>
        /\ Numerator.ok /\ Denominator.ok /\ Denominator.value # 0
        /\ parsed = Some([diameter |-> FractionInMetres, fallback |-> FALSE])

\* C13: the forms are tried in the order fractional inch, decimal inch,
\* millimetres, DN, and a text containing both '/' and 'MM' is settled by the
\* fractional-inch form alone: it is converted as numerator / denominator
\* inches times 0.0254 when the first two '/'-separated pieces are numbers
\* with a nonzero denominator, and is otherwise answered by the default
\* 0.0127 m with the fallback signalled; the millimetre conversion never
\* applies to it.
C13_SlashAndMMIsFractionalInchOrDefault ==
    Parsed /\ HasSlash /\ HasMM =>
        IF Numerator.ok /\ Denominator.ok /\ Denominator.value # 0
        THEN parsed = Some([diameter |-> FractionInMetres, fallback |-> FALSE])
        ELSE parsed = Some(TheDefault)

C13_Witness ==
    /\ Parsed
    /\ size_input = <<"3", "/", "4", "/", "m", "m">>
    /\ parsed = Some([diameter |-> 1905, fallback |-> FALSE])

\* the matched form, the first of the four whose marker is in the text,
\* fails to parse: a piece that is no number or a zero denominator
MatchedFormFails ==
    IF HasSlash THEN ~(Numerator.ok /\ Denominator.ok /\ Denominator.value # 0)
    ELSE IF HasQuote THEN ~ParseFloat(Remove(Canonical, <<Quote>>)).ok
    ELSE IF HasMM THEN ~ParseFloat(Remove(Canonical, <<"M", "M">>)).ok
    ELSE IF HasDN THEN ~ParseFloat(Remove(Canonical, <<"D", "N">>)).ok
    ELSE FALSE

MatchesNoForm == ~HasSlash /\ ~HasQuote /\ ~HasMM /\ ~HasDN

\* C14: _parse_size never raises, every call returns a diameter; for a text
\* that matches none of the forms, or whose matched form fails to parse
\* (a piece that is no number, a zero denominator), it returns exactly the
\* default 0.0127 m and signals the fallback; no other text gets the signal.
C14_UnparsableGivesDefault ==
    Parsed =>
        /\ DOMAIN parsed[1] = {"diameter", "fallback"}
        /\ parsed[1].diameter \in Int
        /\ (MatchesNoForm \/ MatchedFormFails) => parsed = Some(TheDefault)
        /\ parsed[1].fallback => (MatchesNoForm \/ MatchedFormFails)

C14_Witness ==
    /\ Parsed
    /\ size_input = <<"1", "/", "0">>
    /\ MatchedFormFails
    /\ parsed = Some(TheDefault)

-----------------------------------------------------------------------------
(* Claims about the pressure-drop engine, checked under SpecFlow *)

CompType(i) == Get(path_details[i], "type", "UNKNOWN")

\* the K factor the table of the source gives a type
TableKFactor(comp_type) ==
    IF comp_type \in DOMAIN COMPONENT_K_FACTORS
    THEN COMPONENT_K_FACTORS[comp_type]
    ELSE IF ValveKey(comp_type) \in DOMAIN COMPONENT_K_FACTORS
         THEN COMPONENT_K_FACTORS[ValveKey(comp_type)]
         ELSE DefaultKFactor

\* C15: the K factor used for a component is the table's entry for its type
\* if there is one, otherwise the entry for VALVE_<type> if there is one,
\* otherwise 3.0: every recorded pressure drop is the drop with that factor,
\* and the table is the same after any lookup.
C15_KFactorFromTable ==
    /\ k_factors = COMPONENT_K_FACTORS
    /\ \A i \in 1..Len(component_drops) :
          component_drops[i].pressure_drop_bar =
              PaToBar(PressureDrop(TableKFactor(CompType(i)), CompVelocity(i)))

C15_Witness ==
    /\ Analysed
    /\ \E i, j, k \in 1..Len(path_details) :
          /\ CompType(i) = "FILTER"
          /\ CompType(j) = "BALL"
          /\ CompType(k) = "PUMP"
          /\ component_drops[i].pressure_drop_bar > 0
          /\ component_drops[j].pressure_drop_bar > 0
          /\ component_drops[j].pressure_drop_bar
                < PaToBar(PressureDrop(DefaultKFactor, CompVelocity(j)))
          /\ component_drops[k].pressure_drop_bar
                = PaToBar(PressureDrop(DefaultKFactor, CompVelocity(k)))

-----------------------------------------------------------------------------
(* Claims about find_restrictions, checked under SpecRestrictions *)

Scanned == rpc = "done"

\* the entries of the returned list for the i-th component, by type
EntriesOf(i, type) ==
    {k \in 1..Len(restriction_list) :
        /\ restriction_list[k].component_id = component_list[i].id
        /\ restriction_list[k].type = type}

ListedSize(i) == SizeOf(Get(component_list[i], "specifications", NoSpecs))

\* the component has a size text and the text is of one of the four forms
HasParseableSize(i) ==
    /\ Truthy(ListedSize(i))
    /\ ~ParseSizeResult(ListedSize(i)).fallback

\* C16: find_restrictions flags UNDERSIZED_PORT for a component exactly when
\* it has a parseable size and the velocity recomputed from that size at the
\* given flow rate exceeds 5.0 m/s, with severity HIGH above 7.0 m/s and MEDIUM
\* otherwise; a component without a parseable size is not flagged.
C16_UndersizedPortIffParseableAndFast ==
    Scanned =>
        \A i \in 1..Len(component_list) :
            /\ EntriesOf(i, "UNDERSIZED_PORT") # {} <=>
                  /\ HasParseableSize(i)
                  /\ PortVelocity(ListedSize(i), restrictions_flow_rate_lpm) > 500
            /\ \A k \in EntriesOf(i, "UNDERSIZED_PORT") :
                  restriction_list[k].severity =
                      IF PortVelocity(ListedSize(i), restrictions_flow_rate_lpm) > 700
                      THEN "HIGH" ELSE "MEDIUM"

\* the connections that have the i-th component as their source
OutgoingOf(i) == {k \in 1..Len(connections) : connections[k].from = component_list[i].id}

\* C17: find_restrictions flags SERIES_RESTRICTION, severity MEDIUM, for a
\* component exactly when its type begins with VALVE and more than two
\* connections have it as their source, whatever the port check found, so a
\* component can be listed with both UNDERSIZED_PORT and SERIES_RESTRICTION.
C17_SeriesRestrictionIffValveWithThreeOutgoing ==
    Scanned =>
        \A i \in 1..Len(component_list) :
            /\ EntriesOf(i, "SERIES_RESTRICTION") # {} <=>
                  /\ StartsWithValve(Get(component_list[i], "type", ""))
                  /\ Cardinality(OutgoingOf(i)) > 2
            /\ Cardinality(EntriesOf(i, "SERIES_RESTRICTION")) <= 1
            /\ \A k \in EntriesOf(i, "SERIES_RESTRICTION") :
                  restriction_list[k].severity = "MEDIUM"

C17_Witness ==
    /\ Scanned
    /\ \E i \in 1..Len(component_list) :
          /\ Cardinality(OutgoingOf(i)) = 3
          /\ EntriesOf(i, "SERIES_RESTRICTION") # {}
          /\ EntriesOf(i, "UNDERSIZED_PORT") # {}

\* where an entry was produced: the components in input order, the port check
\* of a component before its series check
ProducedAt(entry) ==
    2 * (CHOOSE i \in 1..Len(component_list) : component_list[i].id = entry.component_id)
    + (IF entry.type = "UNDERSIZED_PORT" THEN 0 ELSE 1)

SeverityRank(entry) ==
    CASE entry.severity = "HIGH" -> 0
      [] entry.severity = "MEDIUM" -> 1
      [] entry.severity = "LOW" -> 2
      [] OTHER -> 3

\* C18: the returned list is ordered by severity, HIGH before MEDIUM before
\* LOW before any other severity, and entries of equal severity are in the
\* order they were produced in (component input order, port check before
\* series check).
C18_SortedBySeverityStable ==
    Scanned =>
        \A k, l \in 1..Len(restriction_list) :
            k < l =>
                /\ SeverityRank(restriction_list[k]) <= SeverityRank(restriction_list[l])
                /\ SeverityRank(restriction_list[k]) = SeverityRank(restriction_list[l])
                      => ProducedAt(restriction_list[k]) < ProducedAt(restriction_list[l])

C18_Witness ==
    /\ Scanned
    /\ \E k, l, m \in 1..Len(restriction_list) :
          /\ k < l /\ l < m
          /\ restriction_list[k].severity = "HIGH"
          /\ restriction_list[l].severity = "MEDIUM"
          /\ restriction_list[m].severity = "MEDIUM"
          /\ ProducedAt(restriction_list[k]) > ProducedAt(restriction_list[m])

-----------------------------------------------------------------------------
(* Claims about compare_flow_paths, checked under SpecCompare *)

Compared == cpc = "done"

\* C19: compare_flow_paths names as better_path, for each metric, the path
\* that wins it: the one with the smaller total pressure drop, the one with
\* the larger efficiency, the one with fewer restrictions, each metric being
\* decided without regard to the other two.
C19_BetterPathPerMetric ==
    Compared =>
        LET a == path1_analysis
            b == path2_analysis
        IN /\ a.total_pressure_drop_bar < b.total_pressure_drop_bar
                 => comparison.pressure_drop_comparison.better_path = path1_name
           /\ b.total_pressure_drop_bar < a.total_pressure_drop_bar
                 => comparison.pressure_drop_comparison.better_path = path2_name
           /\ a.efficiency_percent > b.efficiency_percent
                 => comparison.efficiency_comparison.better_path = path1_name
           /\ b.efficiency_percent > a.efficiency_percent
                 => comparison.efficiency_comparison.better_path = path2_name
           /\ Len(a.restrictions) < Len(b.restrictions)
                 => comparison.restriction_comparison.better_path = path1_name
           /\ Len(b.restrictions) < Len(a.restrictions)
                 => comparison.restriction_comparison.better_path = path2_name

\* the first path wins on pressure drop, the second on efficiency and on the
\* number of restrictions
C19_Witness ==
    /\ Compared
    /\ path1_name # path2_name
    /\ path1_analysis.total_pressure_drop_bar < path2_analysis.total_pressure_drop_bar
    /\ path1_analysis.efficiency_percent < path2_analysis.efficiency_percent
    /\ Len(path1_analysis.restrictions) > Len(path2_analysis.restrictions)
    /\ comparison.pressure_drop_comparison.better_path = path1_name
    /\ comparison.efficiency_comparison.better_path = path2_name
    /\ comparison.restriction_comparison.better_path = path2_name

-----------------------------------------------------------------------------
(* Claims checked under SpecConcurrent *)

\* the restrictions analyze_flow_path collected for the i-th component, by type
CollectedFor(i, type) ==
    {k \in RestrictionsOf(i) : restrictions[k].restriction_type = type}

\* C12: a component whose size parses to diameter 0 has zero flow area and
\* gets velocity 0 and pressure drop 0, at any flow rate: the pressure-drop
\* calculation records a drop of 0 for it, finds neither HIGH_VELOCITY nor
\* TURBULENT_FLOW and does not raise on it, and find_restrictions does not
\* flag it UNDERSIZED_PORT; neither call faults on the division by the area.
C12_ZeroAreaGivesZeroVelocity ==
    /\ \A i \in 1..Len(component_drops) :
          CompPortSize(i) = 0 =>
              /\ component_drops[i].pressure_drop_bar = 0
              /\ CollectedFor(i, "HIGH_VELOCITY") = {}
              /\ CollectedFor(i, "TURBULENT_FLOW") = {}
    /\ apc = "raised" => CompPortSize(Len(component_drops) + 1) # 0
    /\ rpc \in {"entry", "loop", "done"}
    /\ Scanned =>
          \A i \in 1..Len(component_list) :
              Truthy(ListedSize(i)) /\ ParseSize(ListedSize(i)) = 0
                  => EntriesOf(i, "UNDERSIZED_PORT") = {}

C12_Witness ==
    /\ Analysed
    /\ Scanned
    /\ flow_rate_lpm > 0
    /\ restrictions_flow_rate_lpm > 0
    /\ \E i \in 1..Len(path_details) :
          /\ CompPortSize(i) = 0
          /\ component_drops[i].pressure_drop_bar = 0
    /\ \E i \in 1..Len(path_details) : component_drops[i].pressure_drop_bar > 0
    /\ \E i \in 1..Len(component_list) :
          /\ Truthy(ListedSize(i))
          /\ ParseSize(ListedSize(i)) = 0
    /\ restriction_list # <<>>

\* what the callers pass in and the class's table
SharedState ==
    <<schematic_data, start_component, end_component, max_depth,
      path_details, flow_rate_lpm, pressure_bar, restrictions_flow_rate_lpm,
      path1_analysis, path2_analysis, path1_name, path2_name, k_factors>>

\* every call that has returned, returned what the operation returns when it
\* runs alone on its arguments
ReturnedAsAlone ==
    /\ pc = "done" => result = FlowPathOf
    /\ Analysed => Some(analysis) = AnalysisOf(path_details, flow_rate_lpm, pressure_bar)
    /\ apc = "raised" => AnalysisOf(path_details, flow_rate_lpm, pressure_bar) = Nothing
    /\ Scanned => restriction_list = RestrictionsFound
    /\ Compared => comparison = CompareFlowPaths(path1_analysis, path2_analysis,
                                                 path1_name, path2_name)

\* C20: find_flow_path, analyze_flow_path, find_restrictions and
\* compare_flow_paths share no mutable state and do not change their inputs:
\* however the steps of concurrent calls interleave, each call returns what it
\* returns when run alone on the same inputs, and no step changes the
\* schematic data, the path details, the compared analyses or the K-factor
\* table.
C20_ConcurrentCallsAreIndependent ==
    /\ [](ReturnedAsAlone /\ k_factors = COMPONENT_K_FACTORS)
    /\ [][SharedState' = SharedState]_vars

C20_Witness ==
    /\ pc = "done"
    /\ Analysed
    /\ Scanned
    /\ Compared
    /\ result = FlowPathOf
    /\ "path_found" \in DOMAIN result
    /\ result.path_found
    /\ analysis.restrictions # <<>>
    /\ restriction_list # <<>>

-----------------------------------------------------------------------------
(* find_flow_path on schematics with branches: five components and, in     *)
(* every order and with repetitions, the connections of two branches from  *)
(* P1 to H203 of different lengths, or those of two branches of the same    *)
(* length and a self-loop                                                   *)

RouteComponents == <<CompP1, CompV1, CompV2, CompF1, CompH203>>

BranchEdges ==
    {Conn("P1", "V1"), Conn("V1", "V2"), Conn("V2", "H203"),
     Conn("P1", "F1"), Conn("F1", "H203")}

TieEdges ==
    {Conn("P1", "V1"), Conn("V1", "H203"),
     Conn("P1", "F1"), Conn("F1", "H203"), Conn("V1", "V1")}

MaxRouteConns == 5

RouteConnectionLists ==
    UNION {[1..n -> BranchEdges] \cup [1..n -> TieEdges] : n \in 0..MaxRouteConns}

RouteDepths == {2, 3}

InitRoutes ==
    /\ \E conns \in RouteConnectionLists :
          schematic_data = [components |-> RouteComponents, connections |-> conns]
    /\ start_component = "P1"
    /\ end_component = "H203"
    /\ max_depth \in RouteDepths
    /\ pc = "entry"
    /\ queue = <<>>
    /\ visited = {}
    /\ result = None
    /\ path_details = <<>>
    /\ flow_rate_lpm = 0
    /\ pressure_bar = 0
    /\ apc = "idle"
    /\ total_pressure_drop = 0
    /\ component_drops = <<>>
    /\ restrictions = <<>>
    /\ analysis = None
    /\ k_factors = COMPONENT_K_FACTORS
    /\ ParseIdle
    /\ RestrictionsIdle
    /\ CompareIdle

\* both endpoints are components of these schematics: the search always starts
NextRoutes ==
    \/ StartSearch
    \/ Discard
    \/ ReturnFound
    \/ Expand
    \/ ReturnNoPath

SpecRoutes == InitRoutes /\ [][NextRoutes]_vars

-----------------------------------------------------------------------------
(* Claims about the order of the search, checked under SpecRoutes *)

\* the ids that a connection leads to from an id of r
Successors(r) ==
    {connections[k].to : k \in {j \in 1..Len(connections) : connections[j].from \in r}}

\* n plus the number of hops from the ids of r to dst; 0 if none lead to it
RECURSIVE IdsFrom(_, _, _)
IdsFrom(r, dst, n) ==
    IF dst \in r THEN n
    ELSE IF Successors(r) \subseteq r THEN 0
    ELSE IdsFrom(r \cup Successors(r), dst, n + 1)

\* the least number of ids on a directed route from start to dst (for a dst
\* that connections lead to)
ShortestIds(dst) == IdsFrom({start_component}, dst, 1)

\* some directed route from start to end has at most n ids
RouteWithin(n) == n >= 1 /\ end_component \in ReachWithin(start_component, n - 1)

\* ids that were enqueued and are no longer in the queue
Dequeued == visited \ {queue[k][1] : k \in 1..Len(queue)}

\* ids whose frontier element was dropped by the depth check
DiscardedIds == {n \in Dequeued : ShortestIds(n) > max_depth}

\* lines 301-340 on a given adjacency dict, end and depth bound: the returned
\* path, if one is returned
RECURSIVE SearchIn(_, _, _, _, _)
SearchIn(g, end, depth, q, vis) ==
    IF q = <<>> THEN Nothing
    ELSE IF Len(Head(q)[2]) > depth THEN SearchIn(g, end, depth, Tail(q), vis)
    ELSE IF Head(q)[1] = end THEN Some(Head(q)[2])
    ELSE Bind(Explore(Get(g, Head(q)[1], <<>>), Head(q)[1], Head(q)[2], Tail(q), vis),
              LAMBDA after : SearchIn(g, end, depth, after.queue, after.visited))

\* the path find_flow_path returns for connections between present components
PathIn(conns, start, end, depth) ==
    SearchIn(BuildGraph(conns), end, depth, <<<<start, <<start>>>>>>, {start})

\* ids that conns lead to from src by at most k hops
RECURSIVE ReachIn(_, _, _)
ReachIn(conns, src, k) ==
    IF k = 0 THEN {src}
    ELSE LET r == ReachIn(conns, src, k - 1)
         IN r \cup {conns[i].to : i \in {j \in 1..Len(conns) : conns[j].from \in r}}

\* the search on conns reports no path although a route of at most depth ids
\* leads from start to end
MissesRoute(conns, start, end, depth) ==
    /\ depth >= 1
    /\ end \in ReachIn(conns, start, depth - 1)
    /\ PathIn(conns, start, end, depth) = Nothing

\* C21 (as stated): there are graphs in which a frontier element discarded
\* for exceeding max_depth hides a route through its node, so that the search
\* misses a route to end of at most max_depth ids: some explored schematic
\* and depth bound make find_flow_path report no path although such a route
\* exists.
C21_DiscardedNodeHidesRoute ==
    \E conns \in RouteConnectionLists, depth \in RouteDepths :
        MissesRoute(conns, start_component, end_component, depth)

\* C21 (amended): the elements of the queue are in order of path length and
\* each carries a shortest route to its node, so an element is discarded only
\* when every route to its node has more than max_depth ids, nothing is
\* expanded after the first discard, and a search that reports no path has
\* missed no route of at most max_depth ids.
C21_DiscardedNodeHidesNoRoute ==
    (pc \in {"loop", "done"} /\ BothPresent) =>
        /\ \A i, j \in 1..Len(queue) : i < j => Len(queue[i][2]) <= Len(queue[j][2])
        /\ \A k \in 1..Len(queue) : Len(queue[k][2]) = ShortestIds(queue[k][1])
        /\ \A n \in DiscardedIds :
              max_depth >= 1 => n \notin ReachWithin(start_component, max_depth - 1)
        /\ (DiscardedIds # {} => \A k \in 1..Len(queue) : ExceedsDepth(queue[k][2]))
        /\ (PathNotFound => ~RouteWithin(max_depth))

\* a search that reported no path after discarding the element of H203, which
\* two branches lead to: the branch explored later found it visited
C21_Witness ==
    /\ PathNotFound
    /\ "H203" \in DiscardedIds
    /\ {"V1", "F1"} \subseteq visited
    /\ {<<"V1", "H203">>, <<"F1", "H203">>} \subseteq Edges
    /\ connections[1].from = "P1"
    /\ connections[1].to = "V1"

-----------------------------------------------------------------------------
(* Claims about what find_flow_path returns, checked under SpecPath *)

\* the two-connection chain P1 -> V1 -> H203
ChainQuery ==
    /\ connections = <<Conn("P1", "V1"), Conn("V1", "H203")>>
    /\ start_component = "P1"
    /\ end_component = "H203"
    /\ BothPresent

\* C22: a successful result carries the ordered id list, path_length equal
\* to the number of ids of the list (the chain P1, V1, H203 gives that list
\* and 3 when max_depth allows three ids), and exactly one path detail per id
\* in the same order, whose position is its index from 0 and whose
\* component_id, type, description and specifications are those of that id in
\* the component mapping (None, None and no specifications for an id that
\* only connections mention).
C22_SuccessCarriesPathAndDetails ==
    /\ PathFound =>
          /\ DOMAIN result = {"path_found", "path", "path_length", "path_details"}
          /\ result.path_length = Len(result.path)
          /\ Len(result.path_details) = Len(result.path)
          /\ \A i \in 1..Len(result.path) :
                LET detail == result.path_details[i]
                    id == result.path[i]
                IN /\ DOMAIN detail = {"position", "component_id", "type",
                                       "description", "specifications"}
                   /\ detail.position = i - 1
                   /\ detail.component_id = id
                   /\ IF id \in DOMAIN components
                      THEN /\ detail.type = components[id].type
                           /\ detail.description = components[id].description
                           /\ detail.specifications = components[id].specifications
                      ELSE /\ detail.type = None
                           /\ detail.description = None
                           /\ detail.specifications = NoSpecs
    /\ (Returned /\ ChainQuery /\ max_depth >= 3) =>
          /\ PathFound
          /\ result.path = <<"P1", "V1", "H203">>
          /\ result.path_length = 3

C22_Witness ==
    /\ PathFound
    /\ ChainQuery
    /\ result.path_details[2].type = "VALVE_DIRECTIONAL"
    /\ result.path_details[2].specifications = [size |-> <<"1", "/", "2", Quote>>]
    /\ result.path_details[3].position = 2

-----------------------------------------------------------------------------
(* Claims about the choice among routes, checked under SpecRoutes *)

\* position in the input of the first connection from u to v
FirstIndex(u, v) ==
    CHOOSE k \in 1..Len(connections) :
        /\ connections[k].from = u /\ connections[k].to = v
        /\ \A j \in 1..(k - 1) : ~(connections[j].from = u /\ connections[j].to = v)

\* the directed routes of n ids from start to dst
RECURSIVE RoutesOf(_, _)
RoutesOf(dst, n) ==
    IF n <= 1 THEN (IF n = 1 /\ dst = start_component THEN {<<dst>>} ELSE {})
    ELSE UNION {{Append(p, dst) : p \in RoutesOf(connections[k].from, n - 1)}
                : k \in {j \in 1..Len(connections) : connections[j].to = dst}}

ShortestRoutes(dst) == RoutesOf(dst, ShortestIds(dst))

\* of two different routes of the same length, p leaves the common prefix by
\* the connection that comes first in the input
Precedes(p, q) ==
    LET i == CHOOSE k \in 2..Len(p) : p[k] # q[k] /\ \A j \in 1..(k - 1) : p[j] = q[j]
    IN FirstIndex(p[i - 1], p[i]) < FirstIndex(q[i - 1], q[i])

\* the shortest route to dst that is discovered first when nodes are expanded
\* in the order they were enqueued and edges are tried in input order
FirstDiscovered(dst) ==
    CHOOSE p \in ShortestRoutes(dst) :
        \A q \in ShortestRoutes(dst) \ {p} : Precedes(p, q)

\* C23: among several shortest routes the search returns the one selected by
\* the input order of the connections: the queue holds, in the order of their
\* discovery, the first discovered shortest route of each waiting node; when
\* the shortest routes fit max_depth the first discovered one to end is
\* returned; and the loop does not continue after end was dequeued within
\* the depth bound.
C23_TieBreakIsConnectionOrder ==
    /\ pc = "loop" =>
          /\ \A k \in 1..Len(queue) : queue[k][2] = FirstDiscovered(queue[k][1])
          /\ \A i, j \in 1..Len(queue) :
                (i < j /\ Len(queue[i][2]) = Len(queue[j][2]))
                => Precedes(queue[i][2], queue[j][2])
          /\ end_component \in Dequeued => ShortestIds(end_component) > max_depth
    /\ (Returned /\ BothPresent /\ RouteWithin(max_depth)) =>
          /\ PathFound
          /\ result.path = FirstDiscovered(end_component)

\* two shortest routes, and the one returned goes through the node enqueued
\* first although the last connection of the other route comes earlier
C23_Witness ==
    /\ PathFound
    /\ ShortestRoutes(end_component) = {<<"P1", "V1", "H203">>, <<"P1", "F1", "H203">>}
    /\ result.path = <<"P1", "V1", "H203">>
    /\ FirstIndex("F1", "H203") < FirstIndex("V1", "H203")

-----------------------------------------------------------------------------
(* Claims about repeated connections and self-loops, checked under SpecRoutes *)

\* conns without self-loops and without the repetitions of a connection
\* between the same ordered pair
RECURSIVE Simplified(_, _)
Simplified(conns, kept) ==
    IF conns = <<>> THEN kept
    ELSE LET conn == Head(conns)
         IN IF conn.from = conn.to
               \/ \E k \in 1..Len(kept) : kept[k].from = conn.from /\ kept[k].to = conn.to
            THEN Simplified(Tail(conns), kept)
            ELSE Simplified(Tail(conns), Append(kept, conn))

\* what the call returned, as SearchIn gives it
ReturnedPath == IF PathFound THEN Some(result.path) ELSE Nothing

\* C24: parallel edges and self-loops do not change the outcome: the found
\* flag and the path are those of the search on the same connections with
\* repetitions collapsed to their first occurrence and self-loops removed,
\* and no returned path takes a self-loop hop.
C24_ParallelEdgesAndSelfLoopsChangeNothing ==
    (Returned /\ BothPresent) =>
        /\ ReturnedPath = PathIn(connections, start_component, end_component, max_depth)
        /\ ReturnedPath = PathIn(Simplified(connections, <<>>),
                                 start_component, end_component, max_depth)
        /\ PathFound =>
              \A i \in 1..(Len(result.path) - 1) : result.path[i] # result.path[i + 1]

\* a self-loop on the route, and a repeated connection between the two that
\* decide the order of the branches
C24_Witness ==
    /\ PathFound
    /\ connections = <<Conn("P1", "F1"), Conn("P1", "V1"), Conn("V1", "V1"),
                       Conn("P1", "F1"), Conn("V1", "H203")>>
    /\ Simplified(connections, <<>>)
           = <<Conn("P1", "F1"), Conn("P1", "V1"), Conn("V1", "H203")>>
    /\ result.path = <<"P1", "V1", "H203">>

-----------------------------------------------------------------------------
(* Claims about the failure results of find_flow_path, checked under SpecPath *)

Failed == Returned /\ ~PathFound

\* the pieces of the returned message: the fixed text of line 285, or the
\* text and the two ids of the f-string of line 339
ErrorPieces ==
    IF "path_found" \in DOMAIN result THEN result.error ELSE <<result.error>>

\* the message contains the id
Names(id) == \E k \in 1..Len(ErrorPieces) : ErrorPieces[k] = id

\* C25: every failure result carries a diagnostic message; when the start or
\* the end component is missing, the message names each missing id, and when
\* both are present the message reports that no path connects start and end.
C25_FailureMessageNamesTheMissing ==
    Failed =>
        /\ "error" \in DOMAIN result
        /\ start_component \notin DOMAIN components => Names(start_component)
        /\ end_component \notin DOMAIN components => Names(end_component)
        /\ BothPresent =>
              ErrorPieces = <<"No path found between", start_component,
                              "and", end_component>>

-----------------------------------------------------------------------------
(* Claims about a path without pressure drop, checked under SpecFlow *)

\* C26: when the total pressure drop of the path is exactly 0 (flow rate 0,
\* or every port of zero area), the analysis raises no division error and
\* returns percent_of_total 0 for every component, with one breakdown entry
\* per path component in path order.
C26_ZeroTotalGivesZeroPercentages ==
    SumOfDrops(Len(path_details)) = 0 =>
        /\ apc # "raised"
        /\ Analysed =>
              /\ analysis.total_pressure_drop_bar = 0
              /\ Len(analysis.component_pressure_drops) = Len(path_details)
              /\ \A i \in 1..Len(path_details) :
                    LET drop == analysis.component_pressure_drops[i]
                    IN /\ drop.component_id = path_details[i].component_id
                       /\ drop.pressure_drop_bar = 0
                       /\ drop.percent_of_total = 0

\* three components without flow and without system pressure
C26_Witness ==
    /\ Analysed
    /\ Len(path_details) = 3
    /\ flow_rate_lpm = 0
    /\ pressure_bar = 0
    /\ analysis.total_pressure_drop_bar = 0
    /\ \A i \in 1..3 : analysis.component_pressure_drops[i].percent_of_total = 0

-----------------------------------------------------------------------------
(* Claims about the end of the search, checked under SpecTermination *)

QueuedIds == {queue[k][1] : k \in 1..Len(queue)}

\* every id is in the queue at most once, and only ids that connections lead
\* to from start were ever enqueued
EnqueuedOnce ==
    pc \in {"loop", "done"} =>
        /\ \A i, j \in 1..Len(queue) : i # j => queue[i][1] # queue[j][1]
        /\ QueuedIds \subseteq visited
        /\ visited \subseteq ReachWithin(start_component, Len(connections))

\* one turn of the loop takes the head out of the queue for good and
\* enqueues exactly the ids it adds to visited
DequeuesOnce ==
    pc = "loop" /\ queue # <<>> =>
        /\ Head(queue)[1] \notin {queue'[k][1] : k \in 1..Len(queue')}
        /\ visited \subseteq visited'
        /\ {queue'[k][1] : k \in 1..Len(queue')} \ QueuedIds = visited' \ visited
        /\ Cardinality(visited' \ QueuedIds') = Cardinality(Dequeued) + 1

\* C27: find_flow_path returns on every input, with cycles, self-loops,
\* parallel edges and any max_depth: every id is added to visited and
\* enqueued at most once, so the loop dequeues at most once per id that
\* connections lead to from start.
C27_SearchTerminates ==
    /\ <>Returned
    /\ []EnqueuedOnce
    /\ [][DequeuesOnce]_vars

\* a returned search over a cycle with a self-loop, both ids of the cycle
\* dequeued
C27_Witness ==
    /\ Returned
    /\ BothPresent
    /\ {<<"P1", "V1">>, <<"V1", "P1">>, <<"V1", "V1">>} \subseteq Edges
    /\ max_depth = MaxDepth
    /\ Dequeued = {"P1", "V1"}
    /\ queue = <<>>

-----------------------------------------------------------------------------
(* Claims about every returned path, checked under SpecPath *)

\* C28: a returned path is a directed route of the schematic: its first id
\* is start_component, its last id is end_component, and every consecutive
\* pair of ids is the from and to of some input connection.
C28_ReturnedPathIsARoute ==
    PathFound =>
        /\ Len(result.path) >= 1
        /\ result.path[1] = start_component
        /\ result.path[Len(result.path)] = end_component
        /\ \A i \in 1..(Len(result.path) - 1) :
              \E k \in 1..Len(connections) :
                  /\ connections[k].from = result.path[i]
                  /\ connections[k].to = result.path[i + 1]

\* a route of two connections in a schematic whose third connection leads
\* back
C28_Witness ==
    /\ PathFound
    /\ result.path = <<"P1", "V1", "H203">>
    /\ Edges = {<<"P1", "V1">>, <<"V1", "H203">>, <<"H203", "V1">>}

\* C29: a returned path has at most max_depth ids, the depth check coming
\* before the end check on every dequeued element: a query with start equal
\* to end returns the one-id path when max_depth >= 1, and with max_depth <= 0
\* every query on present ids returns path_found False.
C29_PathLengthWithinMaxDepth ==
    /\ PathFound =>
          /\ result.path_length <= max_depth
          /\ Len(result.path) <= max_depth
    /\ (Returned /\ BothPresent /\ start_component = end_component /\ max_depth >= 1) =>
          /\ PathFound
          /\ result.path = <<start_component>>
    /\ (Returned /\ BothPresent /\ max_depth <= 0) => PathNotFound

\* start equal to end with max_depth 0: the element of start is discarded
\* before it is compared with end
C29_Witness ==
    /\ PathNotFound
    /\ BothPresent
    /\ start_component = end_component
    /\ max_depth = 0
    /\ visited = {start_component}

-----------------------------------------------------------------------------
(* Claims about ties of compare_flow_paths, checked under SpecCompare *)

\* the comparison of the same two paths passed in the other order
Swapped == CompareFlowPaths(path2_analysis, path1_analysis, path2_name, path1_name)

\* C30: a metric on which the two analyses tie (equal total pressure drop,
\* equal efficiency, equal number of restrictions) names path2_name as
\* better_path, so with the two paths passed in the other order the tied
\* metric names the other path (path1_name, then the second), while a metric
\* on which they differ names the same path in both orders.
C30_TiesNameTheSecondPath ==
    Compared =>
        LET a == path1_analysis
            b == path2_analysis
        IN /\ IF a.total_pressure_drop_bar = b.total_pressure_drop_bar
              THEN /\ comparison.pressure_drop_comparison.better_path = path2_name
                   /\ Swapped.pressure_drop_comparison.better_path = path1_name
              ELSE Swapped.pressure_drop_comparison.better_path
                   = comparison.pressure_drop_comparison.better_path
           /\ IF a.efficiency_percent = b.efficiency_percent
              THEN /\ comparison.efficiency_comparison.better_path = path2_name
                   /\ Swapped.efficiency_comparison.better_path = path1_name
              ELSE Swapped.efficiency_comparison.better_path
                   = comparison.efficiency_comparison.better_path
           /\ IF Len(a.restrictions) = Len(b.restrictions)
              THEN /\ comparison.restriction_comparison.better_path = path2_name
                   /\ Swapped.restriction_comparison.better_path = path1_name
              ELSE Swapped.restriction_comparison.better_path
                   = comparison.restriction_comparison.better_path

\* two different analyses with the same total pressure drop and the same
\* number of restrictions but different efficiencies
C30_Witness ==
    /\ Compared
    /\ path1_name # path2_name
    /\ path1_analysis.total_pressure_drop_bar = path2_analysis.total_pressure_drop_bar
    /\ path1_analysis.total_pressure_drop_bar > 0
    /\ Len(path1_analysis.restrictions) = Len(path2_analysis.restrictions)
    /\ path1_analysis.efficiency_percent > path2_analysis.efficiency_percent
    /\ comparison.pressure_drop_comparison.better_path = path2_name
    /\ comparison.efficiency_comparison.better_path = path1_name
    /\ Swapped.pressure_drop_comparison.better_path = path1_name
    /\ Swapped.efficiency_comparison.better_path = path1_name

====
